---- MODULE Spec2Model ----
(***************************************************************************)
(* The Japanese-to-Korean transliteration engine of the dashboard          *)
(* (src/components/SupplyChart.tsx, lines 84-718): the Hangul jamo         *)
(* composition utilities, the word dictionary, the kana and kanji tables   *)
(* and the three stages of transliterate().                                *)
(*                                                                         *)
(* A JavaScript string is modelled as the sequence of its UTF-16 code      *)
(* units (naturals); '' is << >>.  Indices i, compI are the 0-based        *)
(* cursors of the code; text[i] of the code is Str[i + 1] here.            *)
(***************************************************************************)
EXTENDS Integers, Sequences, FiniteSets, TLC

\* ==========================================================================
\* STRING PRIMITIVES OF THE RUNTIME (String.prototype.*)
\* ==========================================================================

\* s.substring(a, b) for 0 <= a <= b: the code units a .. min(b, length) - 1.
Substring(s, a, b) ==
  SubSeq(s, a + 1, IF b > Len(s) THEN Len(s) ELSE b)

\* s.startsWith(pat, p): pat occurs in s at the 0-based position p.
OccursAt(s, pat, p) ==
  /\ p + Len(pat) <= Len(s)
  /\ \A j \in 1..Len(pat) : s[p + j] = pat[j]

\* s.includes(pat)
StrIncludes(s, pat) ==
  \E p \in 0..(Len(s) - Len(pat)) : OccursAt(s, pat, p)

\* indexOf counting from one: the position of the first c in s, -1 when
\* there is none.
IndexOfFromOne(s, c) ==
  IF \E j \in 1..Len(s) : s[j] = c
  THEN CHOOSE j \in 1..Len(s) : s[j] = c /\ \A k \in 1..(j - 1) : s[k] # c
  ELSE -1

\* s.indexOf(c) for a one-unit string c: the first 0-based position, or -1.
IndexOf(s, c) ==
  IF \E p \in 1..Len(s) : s[p] = c
  THEN (CHOOSE p \in 1..Len(s) : s[p] = c /\ \A q \in 1..(p - 1) : s[q] # c) - 1
  ELSE -1

\* s.replaceAll(pat, rep) for a non-empty pat: the leftmost occurrences, not
\* overlapping, are replaced, scanning from position p on.
RECURSIVE ReplaceFrom(_, _, _, _)
ReplaceFrom(s, pat, rep, p) ==
  IF p >= Len(s) THEN << >>
  ELSE IF OccursAt(s, pat, p)
       THEN rep \o ReplaceFrom(s, pat, rep, p + Len(pat))
       ELSE <<s[p + 1]>> \o ReplaceFrom(s, pat, rep, p + 1)

\* s.replace(pat, rep): only the first occurrence is replaced.
ReplaceFirst(s, pat, rep) ==
  IF \E p \in 0..(Len(s) - Len(pat)) : OccursAt(s, pat, p)
  THEN LET p == CHOOSE p \in 0..(Len(s) - Len(pat)) :
                  OccursAt(s, pat, p) /\ \A q \in 0..(p - 1) : ~OccursAt(s, pat, q)
       IN  SubSeq(s, 1, p) \o rep \o SubSeq(s, p + Len(pat) + 1, Len(s))
  ELSE s

ReplaceAll(s, pat, rep) == ReplaceFrom(s, pat, rep, 0)

\* ==========================================================================
\* HANGUL JAMO COMPOSITION UTILITIES
\* ==========================================================================

HANGUL_BASE == 44032      \* 0xAC00
INITIAL_COUNT == 19
MEDIAL_COUNT == 21
FINAL_COUNT == 28
LAST_SYLLABLE_OFFSET == 11171

INITIALS ==
  <<12593, 12594, 12596, 12599, 12600, 12601, 12609, 12610, 12611, 12613,
    12614, 12615, 12616, 12617, 12618, 12619, 12620, 12621, 12622>>
MEDIALS ==
  <<12623, 12624, 12625, 12626, 12627, 12628, 12629, 12630, 12631, 12632,
    12633, 12634, 12635, 12636, 12637, 12638, 12639, 12640, 12641, 12642,
    12643>>
\* slot 0 is the NUL character '\0'
FINALS ==
  <<0, 12593, 12594, 12595, 12596, 12597, 12598, 12599, 12601, 12602,
    12603, 12604, 12605, 12606, 12607, 12608, 12609, 12610, 12612, 12613,
    12614, 12615, 12616, 12618, 12619, 12620, 12621, 12622>>

NUL == 0

isInitial(char) == IndexOf(INITIALS, char) >= 0

isMedial(char) == IndexOf(MEDIALS, char) >= 0

\* isFinal without the test for the placeholder of slot 0.
isFinalWithPlaceholder(char) == IndexOf(FINALS, char) >= 0

isFinal(char) == char # NUL /\ IndexOf(FINALS, char) >= 0

\* The range test with 1171 for 11171.
isHangulSyllableShortRange(char) ==
  char >= HANGUL_BASE /\ char <= HANGUL_BASE + 1171

isHangulSyllable(char) ==
  char >= HANGUL_BASE /\ char <= HANGUL_BASE + LAST_SYLLABLE_OFFSET

\* decomposeHangul without the test of the final index: the final is always
\* reported missing.
decomposeHangulDropsFinal(char) ==
  IF char < HANGUL_BASE \/ char > HANGUL_BASE + LAST_SYLLABLE_OFFSET
  THEN [isNull |-> TRUE, initial |-> << >>, medial |-> << >>, final |-> << >>]
  ELSE LET syllableIndex == char - HANGUL_BASE
           initialIndex  == syllableIndex \div (MEDIAL_COUNT * FINAL_COUNT)
           medialIndex   == (syllableIndex % (MEDIAL_COUNT * FINAL_COUNT)) \div FINAL_COUNT
       IN  [isNull  |-> FALSE,
            initial |-> <<INITIALS[initialIndex + 1]>>,
            medial  |-> <<MEDIALS[medialIndex + 1]>>,
            final   |-> << >>]

\* decomposeHangul: the record of jamo strings; isNull marks the null returned
\* outside the syllable block.  A missing final is the empty string.
decomposeHangul(char) ==
  IF char < HANGUL_BASE \/ char > HANGUL_BASE + LAST_SYLLABLE_OFFSET
  THEN [isNull |-> TRUE, initial |-> << >>, medial |-> << >>, final |-> << >>]
  ELSE LET syllableIndex == char - HANGUL_BASE
           initialIndex  == syllableIndex \div (MEDIAL_COUNT * FINAL_COUNT)
           medialIndex   == (syllableIndex % (MEDIAL_COUNT * FINAL_COUNT)) \div FINAL_COUNT
           finalIndex    == syllableIndex % FINAL_COUNT
       IN  [isNull  |-> FALSE,
            initial |-> <<INITIALS[initialIndex + 1]>>,
            medial  |-> <<MEDIALS[medialIndex + 1]>>,
            final   |-> IF finalIndex = 0 THEN << >> ELSE <<FINALS[finalIndex + 1]>>]

\* composeHangulSyllable with the final looked up among the 27 jamo that
\* follow the placeholder, as if the table had no slot 0.
composeHangulSyllableShifted(initial, medial, final) ==
  LET initialIndex == IndexOf(INITIALS, initial[1])
      medialIndex  == IndexOf(MEDIALS, medial[1])
      finalIndex   == IF final = << >> THEN 0 ELSE IndexOf(Tail(FINALS), final[1])
  IN  IF initialIndex < 0 \/ medialIndex < 0 \/ finalIndex < 0
      THEN initial \o medial \o final
      ELSE <<HANGUL_BASE + (initialIndex * MEDIAL_COUNT + medialIndex) * FINAL_COUNT + finalIndex>>

\* composeHangulSyllable(initial, medial, final = ''): the arguments are
\* strings of one code unit (final may be '').  indexOf('') is never taken
\* because of the final === '' test.
composeHangulSyllable(initial, medial, final) ==
  LET initialIndex == IndexOf(INITIALS, initial[1])
      medialIndex  == IndexOf(MEDIALS, medial[1])
      finalIndex   == IF final = << >> THEN 0 ELSE IndexOf(FINALS, final[1])
  IN  IF initialIndex < 0 \/ medialIndex < 0 \/ finalIndex < 0
      THEN initial \o medial \o final
      ELSE <<HANGUL_BASE + (initialIndex * MEDIAL_COUNT + medialIndex) * FINAL_COUNT + finalIndex>>

\* text[p] of the code: the unit at the 0-based position p, and undefined
\* (no code unit) past the end.  Every unit is truthy (a non-empty string),
\* undefined is not.
UNDEFINED == -1

CharAt(text, p) == IF p < Len(text) THEN text[p + 1] ELSE UNDEFINED

Truthy(c) == c # UNDEFINED

\* One iteration of the loop without the look at the fourth character: a
\* final after initial and medial is always taken as batchim.
ComposeAtGreedy(text, i) ==
  LET char == text[i + 1]
      c1   == CharAt(text, i + 1)
      c2   == CharAt(text, i + 2)
  IN
  IF isHangulSyllable(char)
  THEN IF Truthy(c1) /\ isFinal(c1)
       THEN IF Truthy(c2) /\ isMedial(c2)
            THEN [branch |-> "syllable-next-initial", push |-> <<char>>, adv |-> 1]
            ELSE LET decomposed == decomposeHangul(char)
                 IN  IF ~decomposed.isNull /\ decomposed.final = << >>
                     THEN [branch |-> "syllable-batchim",
                           push |-> composeHangulSyllable(decomposed.initial, decomposed.medial, <<c1>>),
                           adv |-> 2]
                     ELSE [branch |-> "syllable-closed", push |-> <<char>>, adv |-> 1]
       ELSE [branch |-> "syllable", push |-> <<char>>, adv |-> 1]
  ELSE IF isInitial(char)
  THEN IF Truthy(c1) /\ isMedial(c1)
       THEN IF Truthy(c2) /\ isFinal(c2)
            THEN [branch |-> "jamo-batchim",
                  push |-> composeHangulSyllable(<<char>>, <<c1>>, <<c2>>), adv |-> 3]
            ELSE [branch |-> "jamo-open",
                  push |-> composeHangulSyllable(<<char>>, <<c1>>, << >>), adv |-> 2]
       ELSE [branch |-> "initial-alone", push |-> <<char>>, adv |-> 1]
  ELSE [branch |-> "other", push |-> <<char>>, adv |-> 1]

\* One iteration of the while loop of composeHangul at the cursor i:
\* what is pushed on result, and by how much i advances in total.
ComposeAt(text, i) ==
  LET char == text[i + 1]
      c1   == CharAt(text, i + 1)
      c2   == CharAt(text, i + 2)
      c3   == CharAt(text, i + 3)
  IN
  IF isHangulSyllable(char)
  THEN IF Truthy(c1) /\ isFinal(c1)
       THEN IF Truthy(c2) /\ isMedial(c2)
            THEN [branch |-> "syllable-next-initial", push |-> <<char>>, adv |-> 1]
            ELSE LET decomposed == decomposeHangul(char)
                 IN  IF ~decomposed.isNull /\ decomposed.final = << >>
                     THEN [branch |-> "syllable-batchim",
                           push |-> composeHangulSyllable(decomposed.initial, decomposed.medial, <<c1>>),
                           adv |-> 2]
                     ELSE [branch |-> "syllable-closed", push |-> <<char>>, adv |-> 1]
       ELSE [branch |-> "syllable", push |-> <<char>>, adv |-> 1]
  ELSE IF isInitial(char)
  THEN IF Truthy(c1) /\ isMedial(c1)
       THEN IF Truthy(c2) /\ isFinal(c2)
            THEN IF Truthy(c3) /\ isMedial(c3)
                 THEN [branch |-> "jamo-next-initial",
                       push |-> composeHangulSyllable(<<char>>, <<c1>>, << >>), adv |-> 2]
                 ELSE [branch |-> "jamo-batchim",
                       push |-> composeHangulSyllable(<<char>>, <<c1>>, <<c2>>), adv |-> 3]
            ELSE [branch |-> "jamo-open",
                  push |-> composeHangulSyllable(<<char>>, <<c1>>, << >>), adv |-> 2]
       ELSE [branch |-> "initial-alone", push |-> <<char>>, adv |-> 1]
  ELSE [branch |-> "other", push |-> <<char>>, adv |-> 1]

\* composeHangul as a function of its argument: the loop run to its end.
RECURSIVE ComposeFrom(_, _)
ComposeFrom(text, i) ==
  IF i >= Len(text) THEN << >>
  ELSE LET step == ComposeAt(text, i)
       IN  step.push \o ComposeFrom(text, i + step.adv)

composeHangul(text) == IF text = << >> THEN << >> ELSE ComposeFrom(text, 0)

\* ==========================================================================
\* WORD DICTIONARY (PROPER NOUNS, PLACE NAMES, LOANWORDS)
\* ==========================================================================

\* ---- WORD_MAP: the entries of the object literal, in insertion order ----
WORD_MAP ==
  <<
    <<<<12391, 12377, 65281>>, <<51077, 45768, 45796, 33>>>>,  \* 'です！': '입니다!'
    <<<<12391, 12377, 12290>>, <<51077, 45768, 45796, 46>>>>,  \* 'です。': '입니다.'
    <<<<12391, 12377>>, <<>>>>,  \* 'です': ''
    <<<<12414, 12377, 65281>>, <<54633, 45768, 45796, 33>>>>,  \* 'ます！': '합니다!'
    <<<<12414, 12377, 12290>>, <<54633, 45768, 45796, 46>>>>,  \* 'ます。': '합니다.'
    <<<<12414, 12377>>, <<>>>>,  \* 'ます': ''
    <<<<12398, 32186, 40599, 12394>>, <<32, 44648, 45143, 54620>>>>,  \* 'の綺麗な': ' 깨끗한'
    <<<<12398, 26045, 35373>>, <<32, 49884, 49444>>>>,  \* 'の施設': ' 시설'
    <<<<12398>>, <<32>>>>,  \* 'の': ' '
    <<<<65374>>, <<126>>>>,  \* '～': '~'
    <<<<20195, 12293, 26408>>, <<50836, 50836, 44592>>>>,  \* '代々木': '요요기'
    <<<<20195, 12293, 26408, 31478, 25216, 22580>>, <<50836, 50836, 44592, 32, 44221, 44592, 51109>>>>,  \* '代々木競技場': '요요기 경기장'
    <<<<21407, 23487>>, <<54616, 46972, 51452, 53216>>>>,  \* '原宿': '하라주쿠'
    <<<<21407, 23487, 39365>>, <<54616, 46972, 51452, 53216, 50669>>>>,  \* '原宿駅': '하라주쿠역'
    <<<<28171, 35895>>, <<49884, 48512, 50556>>>>,  \* '渋谷': '시부야'
    <<<<28171, 35895, 39365>>, <<49884, 48512, 50556, 50669>>>>,  \* '渋谷駅': '시부야역'
    <<<<26032, 23487>>, <<49888, 51452, 53216>>>>,  \* '新宿': '신주쿠'
    <<<<26032, 23487, 39365>>, <<49888, 51452, 53216, 50669>>>>,  \* '新宿駅': '신주쿠역'
    <<<<27744, 34955>>, <<51060, 52992, 48512, 53216, 47196>>>>,  \* '池袋': '이케부쿠로'
    <<<<27744, 34955, 39365>>, <<51060, 52992, 48512, 53216, 47196, 50669>>>>,  \* '池袋駅': '이케부쿠로역'
    <<<<37504, 24231>>, <<44596, 51088>>>>,  \* '銀座': '긴자'
    <<<<37504, 24231, 39365>>, <<44596, 51088, 50669>>>>,  \* '銀座駅': '긴자역'
    <<<<26481, 20140>>, <<46020, 53188>>>>,  \* '東京': '도쿄'
    <<<<26481, 20140, 39365>>, <<46020, 53188, 50669>>>>,  \* '東京駅': '도쿄역'
    <<<<21697, 24029>>, <<49884, 45208, 44032, 50752>>>>,  \* '品川': '시나가와'
    <<<<21697, 24029, 39365>>, <<49884, 45208, 44032, 50752, 50669>>>>,  \* '品川駅': '시나가와역'
    <<<<30446, 40658>>, <<47700, 44396, 47196>>>>,  \* '目黒': '메구로'
    <<<<30446, 40658, 39365>>, <<47700, 44396, 47196, 50669>>>>,  \* '目黒駅': '메구로역'
    <<<<24693, 27604, 23551>>, <<50640, 48708, 49828>>>>,  \* '恵比寿': '에비스'
    <<<<24693, 27604, 23551, 39365>>, <<50640, 48708, 49828, 50669>>>>,  \* '恵比寿駅': '에비스역'
    <<<<31179, 33865, 21407>>, <<50500, 53412, 54616, 48148, 46972>>>>,  \* '秋葉原': '아키하바라'
    <<<<31179, 33865, 21407, 39365>>, <<50500, 53412, 54616, 48148, 46972, 50669>>>>,  \* '秋葉原駅': '아키하바라역'
    <<<<19978, 37326>>, <<50864, 50640, 45432>>>>,  \* '上野': '우에노'
    <<<<19978, 37326, 39365>>, <<50864, 50640, 45432, 50669>>>>,  \* '上野駅': '우에노역'
    <<<<27973, 33609>>, <<50500, 49324, 53216, 49324>>>>,  \* '浅草': '아사쿠사'
    <<<<27973, 33609, 39365>>, <<50500, 49324, 53216, 49324, 50669>>>>,  \* '浅草駅': '아사쿠사역'
    <<<<20845, 26412, 26408>>, <<47215, 54256, 44592>>>>,  \* '六本木': '롯폰기'
    <<<<20845, 26412, 26408, 39365>>, <<47215, 54256, 44592, 50669>>>>,  \* '六本木駅': '롯폰기역'
    <<<<36196, 22338>>, <<50500, 52852, 49324, 52852>>>>,  \* '赤坂': '아카사카'
    <<<<36196, 22338, 39365>>, <<50500, 52852, 49324, 52852, 50669>>>>,  \* '赤坂駅': '아카사카역'
    <<<<40635, 24067>>, <<50500, 51088, 48512>>>>,  \* '麻布': '아자부'
    <<<<40635, 24067, 21313, 30058>>, <<50500, 51088, 48512, 51452, 48152>>>>,  \* '麻布十番': '아자부주반'
    <<<<21488, 22580>>, <<45796, 51060, 48148>>>>,  \* '台場': '다이바'
    <<<<12362, 21488, 22580>>, <<50724, 45796, 51060, 48148>>>>,  \* 'お台場': '오다이바'
    <<<<37670, 31992, 30010>>, <<53416, 49884, 52488>>>>,  \* '錦糸町': '킨시초'
    <<<<33970, 30000>>, <<52852, 47560, 53440>>>>,  \* '蒲田': '카마타'
    <<<<22823, 20117, 30010>>, <<50724, 51060, 47560, 52824>>>>,  \* '大井町': '오이마치'
    <<<<20116, 21453, 30000>>, <<44256, 53444, 45796>>>>,  \* '五反田': '고탄다'
    <<<<30000, 30010>>, <<45796, 47560, 52824>>>>,  \* '田町': '다마치'
    <<<<27996, 26494, 30010>>, <<54616, 47560, 47560, 52768, 52488>>>>,  \* '浜松町': '하마마츠초'
    <<<<39640, 30000, 39340, 22580>>, <<45796, 52852, 45796, 45432, 48148, 48148>>>>,  \* '高田馬場': '다카다노바바'
    <<<<26032, 22823, 20037, 20445>>, <<49888, 50724, 53216, 48372>>>>,  \* '新大久保': '신오쿠보'
    <<<<20013, 37326>>, <<45208, 52852, 45432>>>>,  \* '中野': '나카노'
    <<<<33659, 31402>>, <<50724, 44592, 53216, 48372>>>>,  \* '荻窪': '오기쿠보'
    <<<<21513, 31077, 23546>>, <<53412, 52824, 51312, 51648>>>>,  \* '吉祥寺': '키치조지'
    <<<<19977, 40441>>, <<48120, 53440, 52852>>>>,  \* '三鷹': '미타카'
    <<<<35519, 24067>>, <<52488, 54980>>>>,  \* '調布': '초후'
    <<<<24220, 20013>>, <<54980, 52628>>>>,  \* '府中': '후추'
    <<<<30010, 30000>>, <<47560, 52824, 45796>>>>,  \* '町田': '마치다'
    <<<<31435, 24029>>, <<53440, 52824, 52852, 50752>>>>,  \* '立川': '타치카와'
    <<<<20843, 29579, 23376>>, <<54616, 52824, 50724, 51648>>>>,  \* '八王子': '하치오지'
    <<<<19977, 36562, 33590, 23627>>, <<49328, 44176, 51088, 50556>>>>,  \* '三軒茶屋': '산겐자야'
    <<<<19979, 21271, 27810>>, <<49884, 47784, 53412, 53440, 51088, 50752>>>>,  \* '下北沢': '시모키타자와'
    <<<<20013, 30446, 40658>>, <<45208, 52852, 47700, 44396, 47196>>>>,  \* '中目黒': '나카메구로'
    <<<<33258, 30001, 12364, 19992>>, <<51648, 50976, 44032, 50724, 52852>>>>,  \* '自由が丘': '지유가오카'
    <<<<20108, 23376, 29577, 24029>>, <<54980, 53440, 53076, 53440, 47560, 44032, 50752>>>>,  \* '二子玉川': '후타코타마가와'
    <<<<27494, 34101, 23567, 26441>>, <<47924, 49324, 49884, 53076, 49828, 44592>>>>,  \* '武蔵小杉': '무사시코스기'
    <<<<28317, 12398, 21475>>, <<48120, 51312, 45432, 53216, 52824>>>>,  \* '溝の口': '미조노쿠치'
    <<<<12383, 12414, 12503, 12521, 12540, 12470>>, <<53440, 47560, 54532, 46972, 51088>>>>,  \* 'たまプラーザ': '타마프라자'
    <<<<26085, 21513>>, <<55176, 50836, 49884>>>>,  \* '日吉': '히요시'
    <<<<33738, 21517>>, <<53412, 53216, 45208>>>>,  \* '菊名': '키쿠나'
    <<<<32177, 23798>>, <<52768, 45208, 49884, 47560>>>>,  \* '綱島': '츠나시마'
    <<<<22823, 20489, 23665>>, <<50724, 53216, 46972, 50556, 47560>>>>,  \* '大倉山': '오쿠라야마'
    <<<<30333, 27005>>, <<54616, 53216, 46972, 53216>>>>,  \* '白楽': '하쿠라쿠'
    <<<<27178, 27996>>, <<50836, 53076, 54616, 47560>>>>,  \* '横浜': '요코하마'
    <<<<27178, 27996, 39365>>, <<50836, 53076, 54616, 47560, 50669>>>>,  \* '横浜駅': '요코하마역'
    <<<<24029, 23822>>, <<52852, 50752, 49324, 53412>>>>,  \* '川崎': '카와사키'
    <<<<24029, 23822, 39365>>, <<52852, 50752, 49324, 53412, 50669>>>>,  \* '川崎駅': '카와사키역'
    <<<<40372, 35211>>, <<52768, 47336, 48120>>>>,  \* '鶴見': '츠루미'
    <<<<25144, 22618>>, <<53664, 52768, 52852>>>>,  \* '戸塚': '토츠카'
    <<<<34276, 27810>>, <<54980, 51648, 49324, 50752>>>>,  \* '藤沢': '후지사와'
    <<<<22823, 33337>>, <<50724, 54980, 45208>>>>,  \* '大船': '오후나'
    <<<<37772, 20489>>, <<52852, 47560, 53216, 46972>>>>,  \* '鎌倉': '카마쿠라'
    <<<<27743, 12494, 23798>>, <<50640, 45432, 49884, 47560>>>>,  \* '江ノ島': '에노시마'
    <<<<33541, 12534, 23822>>, <<52824, 44032, 49324, 53412>>>>,  \* '茅ヶ崎': '치가사키'
    <<<<24179, 22618>>, <<55176, 46972, 52768, 52852>>>>,  \* '平塚': '히라츠카'
    <<<<23567, 30000, 21407>>, <<50724, 45796, 50752, 46972>>>>,  \* '小田原': '오다와라'
    <<<<21402, 26408>>, <<50500, 52768, 44592>>>>,  \* '厚木': '아츠기'
    <<<<28023, 32769, 21517>>, <<50640, 48708, 45208>>>>,  \* '海老名': '에비나'
    <<<<30456, 27169, 22823, 37326>>, <<49324, 44032, 48120, 50724, 45432>>>>,  \* '相模大野': '사가미오노'
    <<<<27211, 26412>>, <<54616, 49884, 47784, 53664>>>>,  \* '橋本': '하시모토'
    <<<<33853, 21512>>, <<50724, 52824, 50500, 51060>>>>,  \* '落合': '오치아이'
    <<<<33853, 21512, 21335, 38263, 23822>>, <<50724, 52824, 50500, 51060, 32, 48120, 45208, 48120, 45208, 44032, 49324, 53412>>>>,  \* '落合南長崎': '오치아이 미나미나가사키'
    <<<<33853, 21512, 21335, 38263, 23822, 39365>>, <<50724, 52824, 50500, 51060, 32, 48120, 45208, 48120, 45208, 44032, 49324, 53412, 50669>>>>,  \* '落合南長崎駅': '오치아이 미나미나가사키역'
    <<<<21335, 38263, 23822>>, <<48120, 45208, 48120, 45208, 44032, 49324, 53412>>>>,  \* '南長崎': '미나미나가사키'
    <<<<26085, 26412, 27211>>, <<45768, 54844, 48148, 49884>>>>,  \* '日本橋': '니혼바시'
    <<<<27700, 36947, 27211>>, <<49828, 51060, 46020, 48148, 49884>>>>,  \* '水道橋': '스이도바시'
    <<<<39151, 30000, 27211>>, <<51060, 51060, 45796, 48148, 49884>>>>,  \* '飯田橋': '이이다바시'
    <<<<31070, 27005, 22338>>, <<52852, 44396, 46972, 51088, 52852>>>>,  \* '神楽坂': '카구라자카'
    <<<<24460, 27005, 22290>>, <<53076, 46972, 53216, 50644>>>>,  \* '後楽園': '코라쿠엔'
    <<<<24035, 40232>>, <<49828, 44032, 47784>>>>,  \* '巣鴨': '스가모'
    <<<<39378, 36796>>, <<53076, 47560, 44256, 47700>>>>,  \* '駒込': '코마고메'
    <<<<35199, 26085, 26286, 37324>>, <<45768, 49884, 45787, 54252, 47532>>>>,  \* '西日暮里': '니시닛포리'
    <<<<26085, 26286, 37324>>, <<45787, 54252, 47532>>>>,  \* '日暮里': '닛포리'
    <<<<21271, 21315, 20303>>, <<53412, 53440, 49468, 51452>>>>,  \* '北千住': '키타센주'
    <<<<21335, 21315, 20303>>, <<48120, 45208, 48120, 49468, 51452>>>>,  \* '南千住': '미나미센주'
    <<<<20096, 25144>>, <<52852, 47700, 51060, 46020>>>>,  \* '亀戸': '카메이도'
    <<<<20001, 22269>>, <<47308, 44256, 53216>>>>,  \* '両国': '료고쿠'
    <<<<38272, 21069, 20210, 30010>>, <<47788, 51232, 45208, 52852, 52488>>>>,  \* '門前仲町': '몬젠나카초'
    <<<<35914, 27954>>, <<53664, 50836, 49828>>>>,  \* '豊洲': '토요스'
    <<<<26377, 26126>>, <<50500, 47532, 50500, 52992>>>>,  \* '有明': '아리아케'
    <<<<26032, 26408, 22580>>, <<49888, 53412, 48148>>>>,  \* '新木場': '신키바'
    <<<<33883, 35199>>, <<52852, 49324, 51060>>>>,  \* '葛西': '카사이'
    <<<<35199, 33883, 35199>>, <<45768, 49884, 52852, 49324, 51060>>>>,  \* '西葛西': '니시카사이'
    <<<<33337, 27211>>, <<54980, 45208, 48148, 49884>>>>,  \* '船橋': '후나바시'
    <<<<27941, 30000, 27836>>, <<52768, 45796, 45572, 47560>>>>,  \* '津田沼': '츠다누마'
    <<<<21315, 33865>>, <<52824, 48148>>>>,  \* '千葉': '치바'
    <<<<24149, 24373>>, <<47560, 53216, 54616, 47532>>>>,  \* '幕張': '마쿠하리'
    <<<<28023, 27996, 24149, 24373>>, <<52852, 51060, 55180, 47560, 53216, 54616, 47532>>>>,  \* '海浜幕張': '카이힌마쿠하리'
    <<<<26575>>, <<52852, 49884, 50752>>>>,  \* '柏': '카시와'
    <<<<26494, 25144>>, <<47560, 52768, 46020>>>>,  \* '松戸': '마츠도'
    <<<<21462, 25163>>, <<53664, 47532, 45936>>>>,  \* '取手': '토리데'
    <<<<22823, 23470>>, <<50724, 48120, 50556>>>>,  \* '大宮': '오미야'
    <<<<28006, 21644>>, <<50864, 46972, 50752>>>>,  \* '浦和': '우라와'
    <<<<24029, 21475>>, <<52852, 50752, 44396, 52824>>>>,  \* '川口': '카와구치'
    <<<<33609, 21152>>, <<49548, 52852>>>>,  \* '草加': '소카'
    <<<<36234, 35895>>, <<53076, 49884, 44032, 50556>>>>,  \* '越谷': '코시가야'
    <<<<26149, 26085, 37096>>, <<52852, 49828, 52852, 48288>>>>,  \* '春日部': '카스카베'
    <<<<25152, 27810>>, <<53664, 53076, 47196, 51088, 50752>>>>,  \* '所沢': '토코로자와'
    <<<<24029, 36234>>, <<52852, 50752, 44256, 50640>>>>,  \* '川越': '카와고에'
    <<<<22823, 38442>>, <<50724, 49324, 52852>>>>,  \* '大阪': '오사카'
    <<<<22823, 38442, 39365>>, <<50724, 49324, 52852, 50669>>>>,  \* '大阪駅': '오사카역'
    <<<<26757, 30000>>, <<50864, 47700, 45796>>>>,  \* '梅田': '우메다'
    <<<<38627, 27874>>, <<45212, 48148>>>>,  \* '難波': '난바'
    <<<<24515, 25998, 27211>>, <<49888, 49324, 51060, 48148, 49884>>>>,  \* '心斎橋': '신사이바시'
    <<<<22825, 29579, 23546>>, <<53584, 45432, 51648>>>>,  \* '天王寺': '텐노지'
    <<<<20140, 27211>>, <<53188, 48148, 49884>>>>,  \* '京橋': '쿄바시'
    <<<<26032, 22823, 38442>>, <<49888, 50724, 49324, 52852>>>>,  \* '新大阪': '신오사카'
    <<<<28096, 23627, 27211>>, <<50836, 46020, 50556, 48148, 49884>>>>,  \* '淀屋橋': '요도야바시'
    <<<<26412, 30010>>, <<54844, 47560, 52824>>>>,  \* '本町': '혼마치'
    <<<<21517, 21476, 23627>>, <<45208, 44256, 50556>>>>,  \* '名古屋': '나고야'
    <<<<20140, 37117>>, <<44368, 53664>>>>,  \* '京都': '교토'
    <<<<31070, 25144>>, <<44256, 48288>>>>,  \* '神戸': '고베'
    <<<<31119, 23713>>, <<54980, 53216, 50724, 52852>>>>,  \* '福岡': '후쿠오카'
    <<<<26413, 24140>>, <<49343, 54252, 47196>>>>,  \* '札幌': '삿포로'
    <<<<20185, 21488>>, <<49468, 45796, 51060>>>>,  \* '仙台': '센다이'
    <<<<24195, 23798>>, <<55176, 47196, 49884, 47560>>>>,  \* '広島': '히로시마'
    <<<<21271, 20061, 24030>>, <<53412, 53440, 53328, 49800>>>>,  \* '北九州': '키타큐슈'
    <<<<37027, 35207>>, <<45208, 54616>>>>,  \* '那覇': '나하'
    <<<<31478, 25216, 22580>>, <<44221, 44592, 51109>>>>,  \* '競技場': '경기장'
    <<<<20307, 32946, 39208>>, <<52404, 50977, 44288>>>>,  \* '体育館': '체육관'
    <<<<36939, 21205, 22580>>, <<50868, 46041, 51109>>>>,  \* '運動場': '운동장'
    <<<<32207, 21512, 36939, 21205, 22580>>, <<51333, 54633, 50868, 46041, 51109>>>>,  \* '総合運動場': '종합운동장'
    <<<<12473, 12479, 12472, 12450, 12512>>, <<49828, 53440, 46356, 50880>>>>,  \* 'スタジアム': '스타디움'
    <<<<12450, 12522, 12540, 12490>>, <<50500, 47112, 45208>>>>,  \* 'アリーナ': '아레나'
    <<<<12489, 12540, 12512>>, <<46036>>>>,  \* 'ドーム': '돔'
    <<<<12475, 12531, 12479, 12540>>, <<49468, 53552>>>>,  \* 'センター': '센터'
    <<<<12497, 12540, 12463>>, <<54028, 53356>>>>,  \* 'パーク': '파크'
    <<<<20844, 22290>>, <<44277, 50896>>>>,  \* '公園': '공원'
    <<<<24195, 22580>>, <<44305, 51109>>>>,  \* '広場': '광장'
    <<<<39365, 24466, 27497>>, <<50669, 32, 46020, 48372>>>>,  \* '駅徒歩': '역 도보'
    <<<<24466, 27497>>, <<46020, 48372>>>>,  \* '徒歩': '도보'
    <<<<20998>>, <<48516>>>>,  \* '分': '분'
    <<<<31186>>, <<52488>>>>,  \* '秒': '초'
    <<<<30452, 32080>>, <<51649, 44208>>>>,  \* '直結': '직결'
    <<<<39365, 30452, 32080>>, <<50669, 32, 51649, 44208>>>>,  \* '駅直結': '역 직결'
    <<<<20986, 21475>>, <<52636, 44396>>>>,  \* '出口': '출구'
    <<<<21271, 21475>>, <<48513, 51901, 52636, 44396>>>>,  \* '北口': '북쪽출구'
    <<<<21335, 21475>>, <<45224, 51901, 52636, 44396>>>>,  \* '南口': '남쪽출구'
    <<<<26481, 21475>>, <<46041, 51901, 52636, 44396>>>>,  \* '東口': '동쪽출구'
    <<<<35199, 21475>>, <<49436, 51901, 52636, 44396>>>>,  \* '西口': '서쪽출구'
    <<<<20013, 22830, 21475>>, <<51473, 50521, 52636, 44396>>>>,  \* '中央口': '중앙출구'
    <<<<12508, 12531, 12501, 12451, 12531>>, <<48376, 54592>>>>,  \* 'ボンフィン': '본핀'
    <<<<12501, 12483, 12488, 12469, 12523>>, <<54411, 49332>>>>,  \* 'フットサル': '풋살'
    <<<<12469, 12483, 12459, 12540>>, <<52629, 44396>>>>,  \* 'サッカー': '축구'
    <<<<12473, 12509, 12540, 12484>>, <<49828, 54252, 52768>>>>,  \* 'スポーツ': '스포츠'
    <<<<12467, 12540, 12488>>, <<53076, 53944>>>>,  \* 'コート': '코트'
    <<<<12450, 12463, 12475, 12473>>, <<51217, 44540, 49457>>>>,  \* 'アクセス': '접근성'
    <<<<12469, 12540, 12499, 12473>>, <<49436, 48708, 49828>>>>,  \* 'サービス': '서비스'
    <<<<12473, 12486, 12540, 12472>>, <<49828, 53580, 51060, 51648>>>>,  \* 'ステージ': '스테이지'
    <<<<12459, 12486, 12468, 12522, 12540>>, <<52852, 53580, 44256, 47532>>>>,  \* 'カテゴリー': '카테고리'
    <<<<12456, 12531, 12472, 12519, 12452>>, <<50644, 51312, 51060>>>>,  \* 'エンジョイ': '엔조이'
    <<<<12511, 12483, 12463, 12473>>, <<48121, 49828>>>>,  \* 'ミックス': '믹스'
    <<<<12461, 12515, 12531, 12506, 12540, 12531>>, <<52896, 54168, 51064>>>>,  \* 'キャンペーン': '캠페인'
    <<<<12467, 12469, 12523>>, <<44060, 51064, 54411, 49332>>>>,  \* 'コサル': '개인풋살'
    <<<<12450, 12473, 12479>>, <<50500, 49828, 53440>>>>,  \* 'アスタ': '아스타'
    <<<<12499, 12462, 12490, 12540>>, <<48708, 44592, 45320>>>>,  \* 'ビギナー': '비기너'
    <<<<12524, 12505, 12523>>, <<47112, 48296>>>>,  \* 'レベル': '레벨'
    <<<<12452, 12531, 12489, 12450>>, <<51064, 46020, 50612>>>>,  \* 'インドア': '인도어'
    <<<<12450, 12454, 12488, 12489, 12450>>, <<50500, 50883, 46020, 50612>>>>,  \* 'アウトドア': '아웃도어'
    <<<<12450, 12463, 12475, 12473, 25244, 32676>>, <<51217, 44540, 49457, 32, 52572, 44256>>>>,  \* 'アクセス抜群': '접근성 최고'
    <<<<32186, 40599, 12394, 26045, 35373>>, <<44648, 45143, 54620, 32, 49884, 49444>>>>,  \* '綺麗な施設': '깨끗한 시설'
    <<<<20491, 20154, 21442, 21152>>, <<44060, 51064, 52280, 44032>>>>,  \* '個人参加': '개인참가'
    <<<<23627, 20869, 12467, 12540, 12488>>, <<49892, 45236, 32, 53076, 53944>>>>,  \* '屋内コート': '실내 코트'
    <<<<23436, 20840, 23460, 20869>>, <<50756, 51204, 32, 49892, 45236>>>>,  \* '完全室内': '완전 실내'
    <<<<21021, 24515, 32773, 27475, 36814>>, <<52488, 48372, 51088, 32, 54872, 50689>>>>,  \* '初心者歓迎': '초보자 환영'
    <<<<32076, 39443, 32773, 21521, 12369>>, <<50976, 44221, 54744, 51088, 32, 45824, 49345>>>>,  \* '経験者向け': '유경험자 대상'
    <<<<26397, 12452, 12481>>, <<50500, 52840, 32, 52395, 32, 53440, 51076>>>>,  \* '朝イチ': '아침 첫 타임'
    <<<<20491, 12469, 12523>>, <<44060, 51064, 54411, 49332>>>>,  \* '個サル': '개인풋살'
    <<<<23627, 22806>>, <<50556, 50808>>>>,  \* '屋外': '야외'
    <<<<23627, 19978>>, <<50725, 49345>>>>,  \* '屋上': '옥상'
    <<<<23460, 20869>>, <<49892, 45236>>>>,  \* '室内': '실내'
    <<<<23627, 20869>>, <<49892, 45236>>>>,  \* '屋内': '실내'
    <<<<21021, 24515, 32773>>, <<52488, 48372, 51088>>>>,  \* '初心者': '초보자'
    <<<<32076, 39443, 32773>>, <<44221, 54744, 51088>>>>,  \* '経験者': '경험자'
    <<<<20013, 32026>>, <<51473, 44553>>>>,  \* '中級': '중급'
    <<<<19978, 32026>>, <<49345, 44553>>>>,  \* '上級': '상급'
    <<<<21021, 32026>>, <<52488, 44553>>>>,  \* '初級': '초급'
    <<<<22899, 24615>>, <<50668, 49457>>>>,  \* '女性': '여성'
    <<<<30007, 24615>>, <<45224, 49457>>>>,  \* '男性': '남성'
    <<<<20013, 27490>>, <<51473, 51648>>>>,  \* '中止': '중지'
    <<<<38283, 20652>>, <<44060, 52572>>>>,  \* '開催': '개최'
    <<<<21106, 24341>>, <<54624, 51064>>>>,  \* '割引': '할인'
    <<<<21215, 38598>>, <<47784, 51665>>>>,  \* '募集': '모집'
    <<<<32186, 40599>>, <<44648, 45143, 54620>>>>,  \* '綺麗': '깨끗한'
    <<<<25244, 32676>>, <<52572, 44256>>>>  \* '抜群': '최고'
  >>

\* Object.keys(WORD_MAP): the keys in insertion order.
WORD_MAP_OWN_KEYS == [n \in 1..Len(WORD_MAP) |-> WORD_MAP[n][1]]

\* WORD_MAP[key] for a key of the object.
\* (a later entry of the literal with the same key overrides an earlier one)
WordMapGet(key) ==
  LET n == CHOOSE n \in 1..Len(WORD_MAP) :
             WORD_MAP[n][1] = key /\ \A m \in (n + 1)..Len(WORD_MAP) : WORD_MAP[m][1] # key
  IN  WORD_MAP[n][2]

IsWordMapKey(s) == \E n \in 1..Len(WORD_MAP) : WORD_MAP[n][1] = s

LongestKey(keys) ==
  CHOOSE l \in 0..Len(keys) + 8 :
    /\ \A n \in 1..Len(keys) : Len(keys[n]) <= l
    /\ \/ l = 0
       \/ \E n \in 1..Len(keys) : Len(keys[n]) = l

\* keys.sort((a, b) => b.length - a.length): Array.prototype.sort is stable,
\* so keys of equal length keep their insertion order.
RECURSIVE SortFromLength(_, _)
SortFromLength(keys, l) ==
  IF l = 0 THEN << >>
  ELSE LET HasLength(k) == Len(k) = l
       IN  SelectSeq(keys, HasLength) \o SortFromLength(keys, l - 1)

\* The comparator reversed (a.length - b.length): shortest keys first.
RECURSIVE SortUpToLength(_, _)
SortUpToLength(keys, l) ==
  IF l = 0 THEN << >>
  ELSE LET HasLength(k) == Len(k) = l
       IN  SortUpToLength(keys, l - 1) \o SelectSeq(keys, HasLength)

SortByLengthAsc(keys) == SortUpToLength(keys, LongestKey(keys))

\* The sort left out: the keys in insertion order.
SortOmitted(keys) == keys

SortByLengthDesc(keys) == SortFromLength(keys, LongestKey(keys))

WORD_MAP_KEYS == SortByLengthDesc(WORD_MAP_OWN_KEYS)

\* ==========================================================================
\* KATAKANA TO HANGUL MAPPING
\* ==========================================================================

KATAKANA_COMPOUNDS ==
  <<
    <<<<12461, 12515, 12531>>, <<52884>>>>,  \* ['キャン', '캔']
    <<<<12471, 12515, 12540>>, <<49380>>>>,  \* ['シャー', '샤']
    <<<<12481, 12515, 12540>>, <<52264>>>>,  \* ['チャー', '차']
    <<<<12461, 12515>>, <<52908>>>>,  \* ['キャ', '캬']
    <<<<12461, 12517>>, <<53328>>>>,  \* ['キュ', '큐']
    <<<<12461, 12519>>, <<53188>>>>,  \* ['キョ', '쿄']
    <<<<12471, 12515>>, <<49380>>>>,  \* ['シャ', '샤']
    <<<<12471, 12517>>, <<49800>>>>,  \* ['シュ', '슈']
    <<<<12471, 12519>>, <<49660>>>>,  \* ['ショ', '쇼']
    <<<<12481, 12515>>, <<52264>>>>,  \* ['チャ', '차']
    <<<<12481, 12517>>, <<52628>>>>,  \* ['チュ', '추']
    <<<<12481, 12519>>, <<52488>>>>,  \* ['チョ', '초']
    <<<<12491, 12515>>, <<45264>>>>,  \* ['ニャ', '냐']
    <<<<12491, 12517>>, <<45684>>>>,  \* ['ニュ', '뉴']
    <<<<12491, 12519>>, <<45544>>>>,  \* ['ニョ', '뇨']
    <<<<12498, 12515>>, <<54672>>>>,  \* ['ヒャ', '햐']
    <<<<12498, 12517>>, <<55092>>>>,  \* ['ヒュ', '휴']
    <<<<12498, 12519>>, <<54952>>>>,  \* ['ヒョ', '효']
    <<<<12511, 12515>>, <<47616>>>>,  \* ['ミャ', '먀']
    <<<<12511, 12517>>, <<48036>>>>,  \* ['ミュ', '뮤']
    <<<<12511, 12519>>, <<47896>>>>,  \* ['ミョ', '묘']
    <<<<12522, 12515>>, <<47028>>>>,  \* ['リャ', '랴']
    <<<<12522, 12517>>, <<47448>>>>,  \* ['リュ', '류']
    <<<<12522, 12519>>, <<47308>>>>,  \* ['リョ', '료']
    <<<<12462, 12515>>, <<44088>>>>,  \* ['ギャ', '갸']
    <<<<12462, 12517>>, <<44508>>>>,  \* ['ギュ', '규']
    <<<<12462, 12519>>, <<44368>>>>,  \* ['ギョ', '교']
    <<<<12472, 12515>>, <<51088>>>>,  \* ['ジャ', '자']
    <<<<12472, 12517>>, <<51452>>>>,  \* ['ジュ', '주']
    <<<<12472, 12519>>, <<51312>>>>,  \* ['ジョ', '조']
    <<<<12499, 12515>>, <<48204>>>>,  \* ['ビャ', '뱌']
    <<<<12499, 12517>>, <<48624>>>>,  \* ['ビュ', '뷰']
    <<<<12499, 12519>>, <<48484>>>>,  \* ['ビョ', '뵤']
    <<<<12500, 12515>>, <<54084>>>>,  \* ['ピャ', '퍄']
    <<<<12500, 12517>>, <<54504>>>>,  \* ['ピュ', '퓨']
    <<<<12500, 12519>>, <<54364>>>>,  \* ['ピョ', '표']
    <<<<12452, 12455>>, <<50696>>>>,  \* ['イェ', '예']
    <<<<12454, 12451>>, <<50948>>>>,  \* ['ウィ', '위']
    <<<<12454, 12455>>, <<50920>>>>,  \* ['ウェ', '웨']
    <<<<12454, 12457>>, <<50892>>>>,  \* ['ウォ', '워']
    <<<<12532, 12449>>, <<48148>>>>,  \* ['ヴァ', '바']
    <<<<12532, 12451>>, <<48708>>>>,  \* ['ヴィ', '비']
    <<<<12532, 12455>>, <<48288>>>>,  \* ['ヴェ', '베']
    <<<<12532, 12457>>, <<48372>>>>,  \* ['ヴォ', '보']
    <<<<12471, 12455>>, <<49520>>>>,  \* ['シェ', '셰']
    <<<<12472, 12455>>, <<51228>>>>,  \* ['ジェ', '제']
    <<<<12481, 12455>>, <<52404>>>>,  \* ['チェ', '체']
    <<<<12486, 12451>>, <<54000>>>>,  \* ['ティ', '티']
    <<<<12487, 12451>>, <<46356>>>>,  \* ['ディ', '디']
    <<<<12487, 12517>>, <<46272>>>>,  \* ['デュ', '듀']
    <<<<12501, 12449>>, <<54028>>>>,  \* ['ファ', '파']
    <<<<12501, 12451>>, <<54588>>>>,  \* ['フィ', '피']
    <<<<12501, 12455>>, <<54168>>>>,  \* ['フェ', '페']
    <<<<12501, 12457>>, <<54252>>>>,  \* ['フォ', '포']
    <<<<12484, 12449>>, <<52264>>>>,  \* ['ツァ', '차']
    <<<<12484, 12451>>, <<52824>>>>,  \* ['ツィ', '치']
    <<<<12484, 12455>>, <<52404>>>>,  \* ['ツェ', '체']
    <<<<12484, 12457>>, <<52488>>>>,  \* ['ツォ', '초']
    <<<<12483, 12459>>, <<44620>>>>,  \* ['ッカ', '까']
    <<<<12483, 12461>>, <<45180>>>>,  \* ['ッキ', '끼']
    <<<<12483, 12463>>, <<45124>>>>,  \* ['ック', '끄']
    <<<<12483, 12465>>, <<44760>>>>,  \* ['ッケ', '께']
    <<<<12483, 12467>>, <<44844>>>>,  \* ['ッコ', '꼬']
    <<<<12483, 12469>>, <<49912>>>>,  \* ['ッサ', '싸']
    <<<<12483, 12471>>, <<50472>>>>,  \* ['ッシ', '씨']
    <<<<12483, 12473>>, <<50416>>>>,  \* ['ッス', '쓰']
    <<<<12483, 12475>>, <<50052>>>>,  \* ['ッセ', '쎄']
    <<<<12483, 12477>>, <<50136>>>>,  \* ['ッソ', '쏘']
    <<<<12483, 12479>>, <<46384>>>>,  \* ['ッタ', '따']
    <<<<12483, 12481>>, <<52236>>>>,  \* ['ッチ', '찌']
    <<<<12483, 12484>>, <<52180>>>>,  \* ['ッツ', '쯔']
    <<<<12483, 12486>>, <<46524>>>>,  \* ['ッテ', '떼']
    <<<<12483, 12488>>, <<46608>>>>,  \* ['ット', '또']
    <<<<12483, 12497>>, <<48736>>>>,  \* ['ッパ', '빠']
    <<<<12483, 12500>>, <<49296>>>>,  \* ['ッピ', '삐']
    <<<<12483, 12503>>, <<49100>>>>,  \* ['ップ', '뿌']
    <<<<12483, 12506>>, <<48876>>>>,  \* ['ッペ', '뻬']
    <<<<12483, 12509>>, <<48960>>>>  \* ['ッポ', '뽀']
  >>
KATAKANA_SINGLE_ENTRIES ==
  <<
    <<12450, <<50500>>>>, <<12452, <<51060>>>>, <<12454, <<50864>>>>, <<12456, <<50640>>>>, <<12458, <<50724>>>>,  \* ア:아 イ:이 ウ:우 エ:에 オ:오
    <<12459, <<52852>>>>, <<12461, <<53412>>>>, <<12463, <<53216>>>>, <<12465, <<52992>>>>, <<12467, <<53076>>>>,  \* カ:카 キ:키 ク:쿠 ケ:케 コ:코
    <<12469, <<49324>>>>, <<12471, <<49884>>>>, <<12473, <<49828>>>>, <<12475, <<49464>>>>, <<12477, <<49548>>>>,  \* サ:사 シ:시 ス:스 セ:세 ソ:소
    <<12479, <<53440>>>>, <<12481, <<52824>>>>, <<12484, <<52768>>>>, <<12486, <<53580>>>>, <<12488, <<53664>>>>,  \* タ:타 チ:치 ツ:츠 テ:테 ト:토
    <<12490, <<45208>>>>, <<12491, <<45768>>>>, <<12492, <<45572>>>>, <<12493, <<45348>>>>, <<12494, <<45432>>>>,  \* ナ:나 ニ:니 ヌ:누 ネ:네 ノ:노
    <<12495, <<54616>>>>, <<12498, <<55176>>>>, <<12501, <<54980>>>>, <<12504, <<54756>>>>, <<12507, <<54840>>>>,  \* ハ:하 ヒ:히 フ:후 ヘ:헤 ホ:호
    <<12510, <<47560>>>>, <<12511, <<48120>>>>, <<12512, <<47924>>>>, <<12513, <<47700>>>>, <<12514, <<47784>>>>,  \* マ:마 ミ:미 ム:무 メ:메 モ:모
    <<12516, <<50556>>>>, <<12518, <<50976>>>>, <<12520, <<50836>>>>, <<12521, <<46972>>>>, <<12522, <<47532>>>>,  \* ヤ:야 ユ:유 ヨ:요 ラ:라 リ:리
    <<12523, <<47336>>>>, <<12524, <<47112>>>>, <<12525, <<47196>>>>, <<12527, <<50752>>>>, <<12530, <<50724>>>>,  \* ル:루 レ:레 ロ:로 ワ:와 ヲ:오
    <<12531, <<12596>>>>, <<12460, <<44032>>>>, <<12462, <<44592>>>>, <<12464, <<44396>>>>, <<12466, <<44172>>>>,  \* ン:ㄴ ガ:가 ギ:기 グ:구 ゲ:게
    <<12468, <<44256>>>>, <<12470, <<51088>>>>, <<12472, <<51648>>>>, <<12474, <<51592>>>>, <<12476, <<51228>>>>,  \* ゴ:고 ザ:자 ジ:지 ズ:즈 ゼ:제
    <<12478, <<51312>>>>, <<12480, <<45796>>>>, <<12482, <<51648>>>>, <<12485, <<51592>>>>, <<12487, <<45936>>>>,  \* ゾ:조 ダ:다 ヂ:지 ヅ:즈 デ:데
    <<12489, <<46020>>>>, <<12496, <<48148>>>>, <<12499, <<48708>>>>, <<12502, <<48512>>>>, <<12505, <<48288>>>>,  \* ド:도 バ:바 ビ:비 ブ:부 ベ:베
    <<12508, <<48372>>>>, <<12497, <<54028>>>>, <<12500, <<54588>>>>, <<12503, <<54392>>>>, <<12506, <<54168>>>>,  \* ボ:보 パ:파 ピ:피 プ:푸 ペ:페
    <<12509, <<54252>>>>, <<12532, <<48652>>>>, <<12540, <<>>>>, <<12483, <<>>>>  \* ポ:포 ヴ:브 ー: ッ:
  >>
HIRAGANA_SINGLE_ENTRIES ==
  <<
    <<12354, <<50500>>>>, <<12356, <<51060>>>>, <<12358, <<50864>>>>, <<12360, <<50640>>>>, <<12362, <<50724>>>>,  \* あ:아 い:이 う:우 え:에 お:오
    <<12363, <<52852>>>>, <<12365, <<53412>>>>, <<12367, <<53216>>>>, <<12369, <<52992>>>>, <<12371, <<53076>>>>,  \* か:카 き:키 く:쿠 け:케 こ:코
    <<12373, <<49324>>>>, <<12375, <<49884>>>>, <<12377, <<49828>>>>, <<12379, <<49464>>>>, <<12381, <<49548>>>>,  \* さ:사 し:시 す:스 せ:세 そ:소
    <<12383, <<53440>>>>, <<12385, <<52824>>>>, <<12388, <<52768>>>>, <<12390, <<53580>>>>, <<12392, <<53664>>>>,  \* た:타 ち:치 つ:츠 て:테 と:토
    <<12394, <<45208>>>>, <<12395, <<45768>>>>, <<12396, <<45572>>>>, <<12397, <<45348>>>>, <<12398, <<45432>>>>,  \* な:나 に:니 ぬ:누 ね:네 の:노
    <<12399, <<54616>>>>, <<12402, <<55176>>>>, <<12405, <<54980>>>>, <<12408, <<54756>>>>, <<12411, <<54840>>>>,  \* は:하 ひ:히 ふ:후 へ:헤 ほ:호
    <<12414, <<47560>>>>, <<12415, <<48120>>>>, <<12416, <<47924>>>>, <<12417, <<47700>>>>, <<12418, <<47784>>>>,  \* ま:마 み:미 む:무 め:메 も:모
    <<12420, <<50556>>>>, <<12422, <<50976>>>>, <<12424, <<50836>>>>, <<12425, <<46972>>>>, <<12426, <<47532>>>>,  \* や:야 ゆ:유 よ:요 ら:라 り:리
    <<12427, <<47336>>>>, <<12428, <<47112>>>>, <<12429, <<47196>>>>, <<12431, <<50752>>>>, <<12434, <<50724>>>>,  \* る:루 れ:레 ろ:로 わ:와 を:오
    <<12435, <<12596>>>>, <<12364, <<44032>>>>, <<12366, <<44592>>>>, <<12368, <<44396>>>>, <<12370, <<44172>>>>,  \* ん:ㄴ が:가 ぎ:기 ぐ:구 げ:게
    <<12372, <<44256>>>>, <<12374, <<51088>>>>, <<12376, <<51648>>>>, <<12378, <<51592>>>>, <<12380, <<51228>>>>,  \* ご:고 ざ:자 じ:지 ず:즈 ぜ:제
    <<12382, <<51312>>>>, <<12384, <<45796>>>>, <<12386, <<51648>>>>, <<12389, <<51592>>>>, <<12391, <<45936>>>>,  \* ぞ:조 だ:다 ぢ:지 づ:즈 で:데
    <<12393, <<46020>>>>, <<12400, <<48148>>>>, <<12403, <<48708>>>>, <<12406, <<48512>>>>, <<12409, <<48288>>>>,  \* ど:도 ば:바 び:비 ぶ:부 べ:베
    <<12412, <<48372>>>>, <<12401, <<54028>>>>, <<12404, <<54588>>>>, <<12407, <<54392>>>>, <<12410, <<54168>>>>,  \* ぼ:보 ぱ:파 ぴ:피 ぷ:푸 ぺ:페
    <<12413, <<54252>>>>  \* ぽ:포
  >>
KANJI_MAP_ENTRIES ==
  <<
    <<26085, <<51068>>>>, <<26412, <<48376>>>>, <<27211, <<44368>>>>, <<20013, <<51473>>>>, <<22830, <<50521>>>>, <<21306, <<44396>>>>, <<31435, <<47549>>>>, <<32207, <<52509>>>>,  \* 日:일 本:본 橋:교 中:중 央:앙 区:구 立:립 総:총
    <<21512, <<54633>>>>, <<23460, <<49892>>>>, <<20869, <<45236>>>>, <<27996, <<48712>>>>, <<30010, <<51221>>>>, <<39365, <<50669>>>>, <<20998, <<48516>>>>, <<26178, <<49884>>>>,  \* 合:합 室:실 内:내 浜:빈 町:정 駅:역 分:분 時:시
    <<38291, <<44036>>>>, <<20491, <<44060>>>>, <<20154, <<51064>>>>, <<21442, <<52280>>>>, <<21152, <<44032>>>>, <<37117, <<46020>>>>, <<19969, <<51221>>>>, <<30446, <<47785>>>>,  \* 間:간 個:개 人:인 参:참 加:가 都:도 丁:정 目:목
    <<25968, <<49688>>>>, <<19981, <<48512>>>>, <<36275, <<51313>>>>, <<28858, <<50948>>>>, <<27490, <<51648>>>>, <<27178, <<54945>>>>, <<31070, <<49888>>>>, <<22856, <<45208>>>>,  \* 数:수 不:부 足:족 為:위 止:지 横:횡 神:신 奈:나
    <<24029, <<52380>>>>, <<30476, <<54788>>>>, <<24066, <<49884>>>>, <<23665, <<49328>>>>, <<38548, <<44201>>>>, <<36913, <<51452>>>>, <<20652, <<52572>>>>, <<32076, <<44221>>>>,  \* 川:천 県:현 市:시 山:산 隔:격 週:주 催:최 経:경
    <<39443, <<54744>>>>, <<32773, <<51088>>>>, <<21521, <<54693>>>>, <<20808, <<49440>>>>, <<30528, <<52265>>>>, <<21106, <<54624>>>>, <<21517, <<47749>>>>, <<27700, <<49688>>>>,  \* 験:험 者:자 向:향 先:선 着:착 割:할 名:명 水:수
    <<26332, <<50836>>>>, <<26397, <<51312>>>>, <<24231, <<51340>>>>, <<35199, <<49436>>>>, <<30000, <<51204>>>>, <<28961, <<47924>>>>, <<23627, <<50725>>>>, <<19978, <<49345>>>>,  \* 曜:요 朝:조 座:좌 西:서 田:전 無:무 屋:옥 上:상
    <<21069, <<51204>>>>, <<20870, <<50896>>>>, <<24341, <<51064>>>>, <<24179, <<54217>>>>, <<26172, <<51452>>>>, <<20986, <<52636>>>>, <<23436, <<50756>>>>, <<20840, <<51204>>>>,  \* 前:전 円:원 引:인 平:평 昼:주 出:출 完:완 全:전
    <<21644, <<54868>>>>, <<20809, <<44305>>>>, <<25104, <<49457>>>>, <<22679, <<51613>>>>, <<22524, <<44592>>>>, <<29577, <<50725>>>>, <<30333, <<48177>>>>, <<23376, <<51088>>>>,  \* 和:화 光:광 成:성 増:증 埼:기 玉:옥 白:백 子:자
    <<32769, <<45432>>>>, <<33509, <<50557>>>>, <<30007, <<45224>>>>, <<22899, <<50668>>>>, <<35504, <<49688>>>>, <<27005, <<46973>>>>, <<20581, <<44148>>>>, <<24247, <<44053>>>>,  \* 老:노 若:약 男:남 女:여 誰:수 楽:락 健:건 康:강
    <<23822, <<44592>>>>, <<39640, <<44256>>>>, <<27941, <<51652>>>>, <<34809, <<54644>>>>, <<35895, <<44257>>>>, <<24403, <<45817>>>>, <<20104, <<50696>>>>, <<32004, <<50557>>>>,  \* 崎:기 高:고 津:진 蟹:해 谷:곡 当:당 予:예 約:약
    <<35443, <<49345>>>>, <<32048, <<49464>>>>, <<30906, <<54869>>>>, <<35469, <<51064>>>>, <<21839, <<47928>>>>, <<26032, <<49888>>>>, <<23487, <<49689>>>>, <<38480, <<54620>>>>,  \* 詳:상 細:세 確:확 認:인 問:문 新:신 宿:숙 限:한
    <<23450, <<51221>>>>, <<21033, <<51060>>>>, <<29992, <<50857>>>>, <<31354, <<44277>>>>, <<38651, <<51204>>>>, <<35441, <<54868>>>>, <<20195, <<45824>>>>, <<26408, <<47785>>>>,  \* 定:정 利:이 用:용 空:공 電:전 話:화 代:대 木:목
    <<31478, <<44221>>>>, <<25216, <<44592>>>>, <<22580, <<51109>>>>, <<21407, <<50896>>>>, <<24466, <<46020>>>>, <<27497, <<48372>>>>, <<32676, <<44400>>>>, <<40599, <<47140>>>>,  \* 競:경 技:기 場:장 原:원 徒:도 歩:보 群:군 麗:려
    <<26045, <<49884>>>>, <<35373, <<49444>>>>, <<28171, <<49341>>>>, <<21335, <<45224>>>>, <<22269, <<44397>>>>, <<31532, <<51228>>>>, <<19968, <<51068>>>>, <<20307, <<52404>>>>,  \* 施:시 設:설 渋:삽 南:남 国:국 第:제 一:일 体:체
    <<32946, <<50977>>>>, <<39208, <<44288>>>>, <<33853, <<45209>>>>, <<38263, <<51109>>>>, <<22823, <<45824>>>>, <<27743, <<44053>>>>, <<25144, <<54840>>>>, <<32218, <<49440>>>>,  \* 育:육 館:관 落:낙 長:장 大:대 江:강 戸:호 線:선
    <<32080, <<44208>>>>, <<35914, <<54413>>>>, <<23798, <<46020>>>>, <<21513, <<44600>>>>, <<31077, <<49345>>>>, <<23546, <<49324>>>>, <<28023, <<54644>>>>, <<24037, <<44277>>>>,  \* 結:결 豊:풍 島:도 吉:길 祥:상 寺:사 海:해 工:공
    <<33437, <<51648>>>>, <<26356, <<44221>>>>, <<34915, <<51032>>>>, <<20633, <<48708>>>>, <<38899, <<51020>>>>, <<27969, <<47448>>>>, <<27494, <<47924>>>>, <<34101, <<51109>>>>,  \* 芝:지 更:경 衣:의 備:비 音:음 流:류 武:무 蔵:장
    <<37326, <<50556>>>>, <<37670, <<44552>>>>, <<31992, <<49324>>>>, <<38542, <<44228>>>>, <<22696, <<47925>>>>, <<27963, <<54876>>>>, <<21315, <<52380>>>>, <<20303, <<51452>>>>,  \* 野:야 錦:금 糸:사 階:계 墨:묵 活:활 千:천 住:주
    <<32209, <<45433>>>>, <<30058, <<48264>>>>, <<21495, <<54840>>>>, <<32026, <<44553>>>>, <<20197, <<51060>>>>, <<26041, <<48169>>>>, <<20919, <<45257>>>>, <<25151, <<48169>>>>,  \* 緑:녹 番:번 号:호 級:급 以:이 方:방 冷:냉 房:방
    <<38525, <<50577>>>>, <<30722, <<49324>>>>, <<26399, <<44592>>>>, <<23470, <<44417>>>>, <<22303, <<53664>>>>, <<38754, <<47732>>>>, <<20498, <<46020>>>>, <<35201, <<50836>>>>,  \* 陽:양 砂:사 期:기 宮:궁 土:토 面:면 倒:도 要:요
    <<20445, <<48372>>>>, <<35430, <<49884>>>>, <<31569, <<52629>>>>, <<24310, <<50672>>>>, <<24215, <<51216>>>>, <<26329, <<49436>>>>, <<26575, <<48177>>>>, <<33865, <<50685>>>>,  \* 保:보 試:시 筑:축 延:연 店:점 曙:서 柏:백 葉:엽
    <<39378, <<44396>>>>, <<21488, <<45824>>>>, <<20778, <<50864>>>>, <<36899, <<50672>>>>, <<32097, <<46973>>>>, <<26528, <<53952>>>>, <<33337, <<49440>>>>, <<37772, <<44216>>>>,  \* 駒:구 台:대 優:우 連:연 絡:락 枠:틀 船:선 鎌:겸
    <<20489, <<52285>>>>, <<21451, <<50864>>>>, <<28288, <<47564>>>>, <<21729, <<50896>>>>, <<24481, <<50612>>>>, <<31036, <<47168>>>>, <<22825, <<52380>>>>, <<19979, <<54616>>>>,  \* 倉:창 友:우 満:만 員:원 御:어 礼:례 天:천 下:하
    <<33590, <<45796>>>>, <<38442, <<54032>>>>, <<24220, <<48512>>>>, <<23736, <<50504>>>>, <<37324, <<47532>>>>, <<23019, <<55148>>>>, <<36335, <<47196>>>>, <<20853, <<48337>>>>,  \* 茶:다 阪:판 府:부 岸:안 里:리 姫:희 路:로 兵:병
    <<24235, <<44256>>>>, <<20843, <<54036>>>>, <<23478, <<44032>>>>, <<36234, <<50900>>>>, <<33970, <<54252>>>>, <<29983, <<49373>>>>, <<26089, <<51312>>>>, <<32154, <<49549>>>>,  \* 庫:고 八:팔 家:가 越:월 蒲:포 生:생 早:조 続:속
    <<21271, <<48513>>>>, <<21475, <<44396>>>>, <<27507, <<49464>>>>, <<24615, <<49457>>>>, <<28248, <<49345>>>>, <<34276, <<46321>>>>, <<27810, <<53469>>>>, <<23554, <<51204>>>>,  \* 北:북 口:구 歳:세 性:성 湘:상 藤:등 沢:택 専:전
    <<21021, <<52488>>>>, <<27475, <<54872>>>>, <<36814, <<50689>>>>, <<26681, <<44540>>>>, <<20184, <<48512>>>>, <<22238, <<54924>>>>, <<21048, <<44428>>>>, <<34311, <<49548>>>>,  \* 初:초 歓:환 迎:영 根:근 付:부 回:회 券:권 蘇:소
    <<25105, <<50500>>>>, <<24613, <<44553>>>>, <<23433, <<50504>>>>, <<24515, <<49900>>>>, <<25351, <<51648>>>>, <<28006, <<54252>>>>, <<24195, <<44305>>>>, <<23614, <<48120>>>>,  \* 我:아 急:급 安:안 心:심 指:지 浦:포 広:광 尾:미
    <<25918, <<48169>>>>, <<24180, <<45380>>>>, <<36984, <<49440>>>>, <<25163, <<49688>>>>, <<25945, <<44368>>>>, <<25152, <<49548>>>>, <<23646, <<49549>>>>, <<24471, <<46301>>>>,  \* 放:방 年:년 選:선 手:수 教:교 所:소 属:속 得:득
    <<21487, <<44032>>>>, <<23569, <<49548>>>>, <<21402, <<54980>>>>, <<24859, <<50528>>>>, <<30002, <<44049>>>>, <<27531, <<51092>>>>, <<21942, <<50689>>>>, <<26989, <<50629>>>>,  \* 可:가 少:소 厚:후 愛:애 甲:갑 残:잔 営:영 業:업
    <<32066, <<51333>>>>, <<20102, <<47308>>>>, <<26009, <<47308>>>>, <<21476, <<44256>>>>, <<30693, <<51648>>>>, <<26449, <<52492>>>>, <<27744, <<51648>>>>, <<23612, <<45768>>>>,  \* 終:종 了:료 料:료 古:고 知:지 村:촌 池:지 尼:니
    <<22618, <<52509>>>>, <<27954, <<51452>>>>, <<24184, <<54665>>>>, <<27770, <<44208>>>>, <<22411, <<54805>>>>, <<23431, <<50864>>>>, <<21697, <<54408>>>>, <<33021, <<45733>>>>,  \* 塚:총 洲:주 幸:행 決:결 型:형 宇:우 品:품 能:능
    <<23398, <<54617>>>>, <<23550, <<45824>>>>, <<35937, <<49345>>>>, <<36890, <<53685>>>>, <<24120, <<49345>>>>, <<37329, <<44552>>>>, <<24149, <<47561>>>>, <<24373, <<51109>>>>,  \* 学:학 対:대 象:상 通:통 常:상 金:금 幕:막 張:장
    <<33457, <<54868>>>>, <<35211, <<44204>>>>, <<27231, <<44592>>>>, <<20385, <<44032>>>>, <<26684, <<44201>>>>, <<32764, <<51061>>>>, <<26757, <<47588>>>>, <<28145, <<49900>>>>,  \* 花:화 見:견 機:기 価:가 格:격 翼:익 梅:매 深:심
    <<31119, <<48373>>>>, <<34899, <<49696>>>>, <<22522, <<44592>>>>, <<30990, <<52488>>>>, <<39740, <<44480>>>>, <<23500, <<48512>>>>, <<22763, <<49324>>>>, <<21205, <<46041>>>>,  \* 福:복 術:술 基:기 礎:초 鬼:귀 富:부 士:사 動:동
    <<30011, <<54868>>>>, <<25774, <<52524>>>>, <<24433, <<50689>>>>, <<26376, <<50900>>>>, <<22586, <<44228>>>>, <<32654, <<48120>>>>, <<26448, <<51116>>>>, <<20043, <<51648>>>>,  \* 画:화 撮:촬 影:영 月:월 堺:계 美:미 材:재 之:지
    <<27849, <<52380>>>>, <<26149, <<52632>>>>, <<37096, <<48512>>>>, <<24460, <<54980>>>>, <<21336, <<45800>>>>, <<30330, <<48156>>>>, <<20302, <<51200>>>>, <<22810, <<45796>>>>,  \* 泉:천 春:춘 部:부 後:후 単:단 発:발 低:저 多:다
    <<25705, <<47560>>>>, <<29699, <<44396>>>>, <<20534, <<44396>>>>, <<27827, <<54616>>>>, <<32244, <<47144>>>>, <<32722, <<49845>>>>, <<20250, <<54924>>>>, <<29579, <<50773>>>>,  \* 摩:마 球:구 倶:구 河:하 練:련 習:습 会:회 王:왕
    <<33276, <<44396>>>>, <<26495, <<54032>>>>, <<34030, <<47144>>>>, <<22806, <<50808>>>>, <<20185, <<49440>>>>, <<22478, <<49457>>>>, <<27835, <<52824>>>>, <<27079, <<51204>>>>,  \* 臼:구 板:판 蓮:련 外:외 仙:선 城:성 治:치 槇:전
    <<28165, <<52397>>>>, <<33576, <<51088>>>>, <<19977, <<49340>>>>, <<19992, <<44396>>>>, <<21561, <<52712>>>>, <<39376, <<51452>>>>, <<36554, <<52264>>>>, <<21322, <<48152>>>>,  \* 清:청 茨:자 三:삼 丘:구 吹:취 駐:주 車:차 半:반
    <<20037, <<44396>>>>, <<23453, <<48372>>>>, <<40845, <<50857>>>>, <<33775, <<54868>>>>, <<36817, <<44540>>>>, <<20061, <<44396>>>>, <<26465, <<51312>>>>, <<27492, <<52264>>>>,  \* 久:구 宝:보 龍:용 華:화 近:근 九:구 条:조 此:차
    <<23713, <<44053>>>>, <<21338, <<48149>>>>, <<37027, <<45208>>>>, <<29634, <<44032>>>>, <<23567, <<49548>>>>, <<22812, <<50556>>>>, <<40372, <<54617>>>>, <<27836, <<49548>>>>,  \* 岡:강 博:박 那:나 珂:가 小:소 夜:야 鶴:학 沼:소
    <<26612, <<49884>>>>, <<27263, <<44053>>>>, <<33391, <<50577>>>>, <<22320, <<51648>>>>, <<26093, <<50865>>>>, <<27583, <<51204>>>>, <<21608, <<51452>>>>, <<24030, <<51452>>>>,  \* 柴:시 橿:강 良:양 地:지 旭:욱 殿:전 周:주 州:주
    <<24161, <<48264>>>>, <<34966, <<49688>>>>, <<26368, <<52572>>>>, <<26522, <<47588>>>>, <<36016, <<49464>>>>, <<24453, <<45824>>>>, <<30331, <<46321>>>>, <<37682, <<47197>>>>,  \* 幡:번 袖:수 最:최 枚:매 貰:세 待:대 登:등 録:록
    <<20803, <<50896>>>>, <<36947, <<46020>>>>, <<24505, <<52384>>>>, <<24213, <<51200>>>>, <<25991, <<47928>>>>, <<37111, <<54693>>>>, <<37325, <<51473>>>>, <<35222, <<49884>>>>,  \* 元:원 道:도 徹:철 底:저 文:문 郷:향 重:중 視:시
    <<36605, <<44221>>>>, <<21931, <<45181>>>>, <<29017, <<50672>>>>, <<36229, <<52488>>>>, <<36939, <<50868>>>>, <<24931, <<44288>>>>, <<22818, <<47805>>>>, <<26365, <<51613>>>>,  \* 軽:경 喫:끽 煙:연 超:초 運:운 慣:관 夢:몽 曽:증
    <<38686, <<54616>>>>, <<20493, <<48176>>>>, <<20845, <<50977>>>>, <<26377, <<50976>>>>, <<35519, <<51312>>>>, <<24067, <<54252>>>>, <<21619, <<48120>>>>, <<32032, <<49548>>>>,  \* 霞:하 倍:배 六:육 有:유 調:조 布:포 味:미 素:소
    <<33073, <<53448>>>>, <<20837, <<51077>>>>, <<38272, <<47928>>>>, <<28779, <<54868>>>>, <<21830, <<49345>>>>, <<26847, <<46041>>>>, <<20001, <<50577>>>>, <<36914, <<51652>>>>,  \* 脱:탈 入:입 門:문 火:화 商:상 棟:동 両:양 進:진
    <<20505, <<54980>>>>, <<27671, <<44592>>>>, <<28201, <<50728>>>>, <<24038, <<51340>>>>, <<21491, <<50864>>>>, <<24555, <<53132>>>>, <<36969, <<51201>>>>, <<25126, <<51204>>>>,  \* 候:후 気:기 温:온 左:좌 右:우 快:쾌 適:적 戦:전
    <<30334, <<48177>>>>, <<40635, <<47560>>>>, <<19975, <<47564>>>>, <<22937, <<47896>>>>, <<20856, <<51204>>>>, <<34903, <<44032>>>>, <<21516, <<46041>>>>, <<21213, <<49849>>>>,  \* 百:백 麻:마 万:만 妙:묘 典:전 街:가 同:동 勝:승
    <<40232, <<50517>>>>, <<23621, <<44144>>>>, <<26381, <<48373>>>>, <<37319, <<52292>>>>, <<25285, <<45812>>>>, <<22826, <<53468>>>>, <<20117, <<51221>>>>, <<23380, <<44277>>>>,  \* 鴨:압 居:거 服:복 采:채 担:담 太:태 井:정 孔:공
    <<26207, <<49457>>>>, <<25913, <<44060>>>>, <<26413, <<52272>>>>, <<36468, <<52629>>>>, <<26494, <<49569>>>>, <<26862, <<49340>>>>, <<36989, <<44144>>>>, <<34220, <<50557>>>>,  \* 晟:성 改:개 札:찰 蹴:축 松:송 森:삼 遽:거 薬:약
    <<28381, <<50857>>>>, <<35388, <<51613>>>>, <<28207, <<54637>>>>, <<36008, <<54868>>>>, <<25313, <<54869>>>>, <<21215, <<47784>>>>, <<38598, <<51665>>>>, <<38632, <<50864>>>>,  \* 滝:용 証:증 港:항 貨:화 拡:확 募:모 集:집 雨:우
    <<25512, <<52628>>>>, <<22888, <<51109>>>>, <<21046, <<51228>>>>, <<24230, <<46020>>>>, <<29190, <<54253>>>>, <<21360, <<51064>>>>, <<20908, <<46041>>>>, <<29105, <<50676>>>>,  \* 推:추 奨:장 制:제 度:도 爆:폭 印:인 冬:동 熱:열
    <<37327, <<47049>>>>, <<21462, <<52712>>>>, <<40575, <<47197>>>>, <<40658, <<55121>>>>, <<26228, <<52397>>>>, <<40251, <<54861>>>>, <<24035, <<49548>>>>, <<22243, <<45800>>>>,  \* 量:량 取:취 鹿:록 黒:흑 晴:청 鴻:홍 巣:소 団:단
    <<36196, <<51201>>>>, <<22338, <<54032>>>>, <<33538, <<47924>>>>, <<38306, <<44288>>>>, <<26223, <<44221>>>>, <<21566, <<50724>>>>, <<22971, <<52376>>>>, <<26627, <<54924>>>>,  \* 赤:적 坂:판 茂:무 関:관 景:경 吾:오 妻:처 栃:회
    <<21916, <<55148>>>>, <<39340, <<47560>>>>, <<27425, <<52264>>>>, <<38745, <<51221>>>>, <<39423, <<51456>>>>, <<20024, <<54872>>>>, <<21427, <<50628>>>>, <<31105, <<44552>>>>,  \* 喜:희 馬:마 次:차 静:정 駿:준 丸:환 厳:엄 禁:금
    <<29066, <<50885>>>>, <<20027, <<51452>>>>, <<26628, <<50689>>>>, <<31934, <<51221>>>>, <<28511, <<49437>>>>, <<29287, <<47785>>>>, <<31282, <<46020>>>>, <<22378, <<54217>>>>,  \* 熊:웅 主:주 栄:영 精:정 潟:석 牧:목 稲:도 坪:평
    <<28580, <<53469>>>>, <<37089, <<44400>>>>, <<20239, <<48373>>>>, <<26691, <<46020>>>>, <<20844, <<44277>>>>, <<22290, <<50896>>>>, <<29694, <<54788>>>>, <<22312, <<51116>>>>,  \* 澤:택 郡:군 伏:복 桃:도 公:공 園:원 現:현 在:재
    <<25276, <<50517>>>>, <<38920, <<49688>>>>, <<28760, <<53444>>>>, <<38738, <<52397>>>>, <<33256, <<51076>>>>, <<23724, <<44049>>>>, <<24196, <<51109>>>>, <<31192, <<48708>>>>,  \* 押:압 須:수 灘:탄 青:청 臨:임 岬:갑 庄:장 秘:비
    <<23494, <<48128>>>>, <<27714, <<44396>>>>, <<32232, <<54200>>>>, <<30952, <<47560>>>>, <<30340, <<51201>>>>, <<26126, <<47749>>>>, <<30707, <<49437>>>>, <<36024, <<45824>>>>,  \* 密:밀 求:구 編:편 磨:마 的:적 明:명 石:석 貸:대
    <<20999, <<51208>>>>, <<20140, <<44221>>>>, <<26481, <<46041>>>>  \* 切:절 京:경 東:동
  >>

\* table[char] of a Record<string, string>: the mapped string, or undefined
\* (modelled by the falsy '') when char is no key.  The code only tests the
\* lookup for truthiness, and '' is falsy like undefined.
Lookup(entries, char) ==
  IF \E n \in 1..Len(entries) : entries[n][1] = char
  THEN LET n == CHOOSE n \in 1..Len(entries) :
                    entries[n][1] = char /\ \A m \in (n + 1)..Len(entries) : entries[m][1] # char
       IN  entries[n][2]
  ELSE << >>

TableOf(entries) == [c \in {entries[n][1] : n \in 1..Len(entries)} |-> Lookup(entries, c)]

KATAKANA_SINGLE == TableOf(KATAKANA_SINGLE_ENTRIES)
HIRAGANA_SINGLE == TableOf(HIRAGANA_SINGLE_ENTRIES)
KANJI_MAP == TableOf(KANJI_MAP_ENTRIES)

TableGet(table, char) == IF char \in DOMAIN table THEN table[char] ELSE << >>

PROLONGED == 12540    \* 'ー'

\* ==========================================================================
\* MAIN TRANSLITERATION FUNCTION
\* ==========================================================================

\* The loop body with the keys of one character passed over.
ApplyKeyLongOnly(result, n) ==
  LET key == WORD_MAP_KEYS[n]
  IN  IF Len(key) > 1 /\ StrIncludes(result, key)
      THEN ReplaceAll(result, key, WordMapGet(key))
      ELSE result

\* Step 1, one iteration of the for loop: the body for the n-th key.  (The
\* key is bound as a value, through a one-element set, only to have it
\* evaluated once.)
ApplyKey(result, n) ==
  CHOOSE out \in {IF StrIncludes(result, key)
                  THEN ReplaceAll(result, key, WordMapGet(key))
                  ELSE result : key \in {WORD_MAP_KEYS[n]}} : TRUE

\* Step 1: the iterations for the keys lo .. hi, in this order, each on the
\* string the earlier ones left.  (The range is halved, and the string left by
\* the first half is bound as a value before the second half runs, only to
\* keep the evaluation shallow.)
RECURSIVE ApplyKeys(_, _, _)
ApplyKeys(result, lo, hi) ==
  IF lo > hi THEN result
  ELSE IF lo = hi THEN ApplyKey(result, lo)
  ELSE LET mid == (lo + hi) \div 2
       IN  CHOOSE last \in {ApplyKeys(first, mid + 1, hi) : first \in {ApplyKeys(result, lo, mid)}} : TRUE

ApplyWordMap(text) == ApplyKeys(text, 1, Len(WORD_MAP_KEYS))

\* The inner loop taking the shortest pattern that matches, as it would with
\* the two-character patterns ahead of the three-character ones in the table.
FirstCompoundShortest(result, i) ==
  LET Matches(n) == Substring(result, i, i + Len(KATAKANA_COMPOUNDS[n][1])) = KATAKANA_COMPOUNDS[n][1]
  IN  IF \E n \in 1..Len(KATAKANA_COMPOUNDS) : Matches(n)
      THEN CHOOSE n \in 1..Len(KATAKANA_COMPOUNDS) :
             /\ Matches(n)
             /\ \A m \in 1..Len(KATAKANA_COMPOUNDS) :
                  Matches(m) /\ m # n => Len(KATAKANA_COMPOUNDS[m][1]) > Len(KATAKANA_COMPOUNDS[n][1])
      ELSE 0

\* The inner for loop over KATAKANA_COMPOUNDS: the first pattern, in table
\* order, that equals result.substring(i, i + pattern.length); 0 when none.
FirstCompound(result, i) ==
  LET Matches(n) == Substring(result, i, i + Len(KATAKANA_COMPOUNDS[n][1])) = KATAKANA_COMPOUNDS[n][1]
  IN  IF \E n \in 1..Len(KATAKANA_COMPOUNDS) : Matches(n)
      THEN CHOOSE n \in 1..Len(KATAKANA_COMPOUNDS) : Matches(n) /\ \A m \in 1..(n - 1) : ~Matches(m)
      ELSE 0

\* PhoneticAt with the i++ of the prolonged-sound branch left out.
PhoneticAtStuck(result, i) ==
  LET char == result[i + 1]
      n    == FirstCompound(result, i)
  IN
  IF n # 0
  THEN [branch |-> "compound", emit |-> KATAKANA_COMPOUNDS[n][2], adv |-> Len(KATAKANA_COMPOUNDS[n][1])]
  ELSE IF char = PROLONGED
  THEN [branch |-> "prolonged", emit |-> << >>, adv |-> 0]
  ELSE IF TableGet(KATAKANA_SINGLE, char) # << >>
  THEN [branch |-> "katakana", emit |-> TableGet(KATAKANA_SINGLE, char), adv |-> 1]
  ELSE IF TableGet(HIRAGANA_SINGLE, char) # << >>
  THEN [branch |-> "hiragana", emit |-> TableGet(HIRAGANA_SINGLE, char), adv |-> 1]
  ELSE IF TableGet(KANJI_MAP, char) # << >>
  THEN [branch |-> "kanji", emit |-> TableGet(KANJI_MAP, char), adv |-> 1]
  ELSE [branch |-> "pass", emit |-> <<char>>, adv |-> 1]

\* PhoneticAt without the kanji fallback.
PhoneticAtWithoutKanji(result, i) ==
  LET char == result[i + 1]
      n    == FirstCompound(result, i)
  IN
  IF n # 0
  THEN [branch |-> "compound", emit |-> KATAKANA_COMPOUNDS[n][2], adv |-> Len(KATAKANA_COMPOUNDS[n][1])]
  ELSE IF char = PROLONGED
  THEN [branch |-> "prolonged", emit |-> << >>, adv |-> 1]
  ELSE IF TableGet(KATAKANA_SINGLE, char) # << >>
  THEN [branch |-> "katakana", emit |-> TableGet(KATAKANA_SINGLE, char), adv |-> 1]
  ELSE IF TableGet(HIRAGANA_SINGLE, char) # << >>
  THEN [branch |-> "hiragana", emit |-> TableGet(HIRAGANA_SINGLE, char), adv |-> 1]
  ELSE [branch |-> "pass", emit |-> <<char>>, adv |-> 1]

\* PhoneticAt without the branch that skips the prolonged-sound marker.
PhoneticAtKeepsProlonged(result, i) ==
  LET char == result[i + 1]
      n    == FirstCompound(result, i)
  IN
  IF n # 0
  THEN [branch |-> "compound", emit |-> KATAKANA_COMPOUNDS[n][2], adv |-> Len(KATAKANA_COMPOUNDS[n][1])]
  ELSE IF TableGet(KATAKANA_SINGLE, char) # << >>
  THEN [branch |-> "katakana", emit |-> TableGet(KATAKANA_SINGLE, char), adv |-> 1]
  ELSE IF TableGet(HIRAGANA_SINGLE, char) # << >>
  THEN [branch |-> "hiragana", emit |-> TableGet(HIRAGANA_SINGLE, char), adv |-> 1]
  ELSE IF TableGet(KANJI_MAP, char) # << >>
  THEN [branch |-> "kanji", emit |-> TableGet(KANJI_MAP, char), adv |-> 1]
  ELSE [branch |-> "pass", emit |-> <<char>>, adv |-> 1]

\* Step 2 without the test of the hiragana table (lines 695-699).
PhoneticAtWithoutHiragana(result, i) ==
  LET char == result[i + 1]
      n    == FirstCompound(result, i)
  IN
  IF n # 0
  THEN [branch |-> "compound", emit |-> KATAKANA_COMPOUNDS[n][2], adv |-> Len(KATAKANA_COMPOUNDS[n][1])]
  ELSE IF char = PROLONGED
  THEN [branch |-> "prolonged", emit |-> << >>, adv |-> 1]
  ELSE IF TableGet(KATAKANA_SINGLE, char) # << >>
  THEN [branch |-> "katakana", emit |-> TableGet(KATAKANA_SINGLE, char), adv |-> 1]
  ELSE IF TableGet(KANJI_MAP, char) # << >>
  THEN [branch |-> "kanji", emit |-> TableGet(KANJI_MAP, char), adv |-> 1]
  ELSE [branch |-> "pass", emit |-> <<char>>, adv |-> 1]

\* Step 2, one iteration of the while loop at the cursor i: what is appended
\* to transliterated, and by how much i advances.
PhoneticAt(result, i) ==
  LET char == result[i + 1]
      n    == FirstCompound(result, i)
  IN
  IF n # 0
  THEN [branch |-> "compound", emit |-> KATAKANA_COMPOUNDS[n][2], adv |-> Len(KATAKANA_COMPOUNDS[n][1])]
  ELSE IF char = PROLONGED
  THEN [branch |-> "prolonged", emit |-> << >>, adv |-> 1]
  ELSE IF TableGet(KATAKANA_SINGLE, char) # << >>
  THEN [branch |-> "katakana", emit |-> TableGet(KATAKANA_SINGLE, char), adv |-> 1]
  ELSE IF TableGet(HIRAGANA_SINGLE, char) # << >>
  THEN [branch |-> "hiragana", emit |-> TableGet(HIRAGANA_SINGLE, char), adv |-> 1]
  ELSE IF TableGet(KANJI_MAP, char) # << >>
  THEN [branch |-> "kanji", emit |-> TableGet(KANJI_MAP, char), adv |-> 1]
  ELSE [branch |-> "pass", emit |-> <<char>>, adv |-> 1]

RECURSIVE PhoneticFrom(_, _)
PhoneticFrom(result, i) ==
  IF i >= Len(result) THEN << >>
  ELSE LET step == PhoneticAt(result, i)
       IN  step.emit \o PhoneticFrom(result, i + step.adv)

PhoneticStage(result) == PhoneticFrom(result, 0)

\* transliterate(text, lang) as a function of its arguments.
Transliterate(text, lang) ==
  IF text = << >> THEN << >>
  ELSE IF lang = "ja" THEN text
  ELSE composeHangul(PhoneticStage(ApplyWordMap(text)))

\* ==========================================================================
\* THE CALLS: one invocation of an exported function, step by step
\* ==========================================================================

VARIABLES
  entry,           \* the exported function that was called
  text, lang,      \* the arguments of transliterate
  pc,              \* where the invocation stands
  result,          \* transliterate: the string after the dictionary loop
  i,               \* transliterate: the cursor of the Step 2 loop
  transliterated,  \* transliterate: the output buffer of Step 2
  compText,        \* composeHangul: its argument
  compResult,      \* composeHangul: its result array, joined
  compI,           \* composeHangul: its cursor
  ret,             \* the value returned to the caller
  inv,             \* the invocations of transliterate in flight side by side,
                   \* each with its own arguments, locals and return value
  crawlDateCall,   \* crawler: one invocation of crawlDate
  crawlCall,       \* crawler: one invocation of crawlLaBOLA
  crawlReq,        \* one request to the crawl endpoint
  cleanupReq,      \* one request to the cleanup endpoint
  eventsReq        \* one request to the events endpoint

\* The state of the transliteration engine, and the state of the server side.
engine == <<entry, text, lang, pc, result, i, transliterated, compText, compResult, compI, ret, inv>>
server == <<crawlDateCall, crawlCall, crawlReq, cleanupReq, eventsReq>>

vars == <<entry, text, lang, pc, result, i, transliterated, compText, compResult, compI, ret, inv,
          crawlDateCall, crawlCall, crawlReq, cleanupReq, eventsReq>>

\* No call of the crawler and no request to an endpoint is under way.
Idle == [pc |-> "idle"]

ServerIdle ==
  /\ crawlDateCall = Idle
  /\ crawlCall = Idle
  /\ crawlReq = Idle
  /\ cleanupReq = Idle
  /\ eventsReq = Idle

\* No call of the transliteration engine is under way.
EngineIdle ==
  /\ entry = "server"
  /\ text = << >> /\ lang = "ko" /\ pc = "idle"
  /\ result = << >> /\ i = 0 /\ transliterated = << >>
  /\ compText = << >> /\ compResult = << >> /\ compI = 0 /\ ret = << >>
  /\ inv = << >>

\* --------------------------------------------------------------------------
\* The arguments the calls are made with
\* --------------------------------------------------------------------------

\* All strings over an alphabet up to a length.
Strings(alphabet, maxLen) == UNION {[1..n -> alphabet] : n \in 0..maxLen}

MaxLen == 4
MaxFairLen == 3
MaxDictLen == 5
MaxJamoLen == 4
MaxKanaLen == 3
MaxParticleLen == 3

\* '1' ':' NUL, a lone high surrogate, and the syllable '가'
AlphaNoise == {49, 58, 0, 55296, 44032}
\* キ ャ ン ー あ
AlphaKana == {12461, 12515, 12531, 12540, 12354}
\* 浅 草 (the key '浅草', neither character in a table) 日 (kanji table) ー ㄱ ㅏ
AlphaMixed == {27973, 33609, 26085, 12540, 12593, 12623}

\* The scenarios of the specification: "10:00-12:00", "新宿", "フットサル", "東京都"
ScenarioClock == <<49, 48, 58, 48, 48, 45, 49, 50, 58, 48, 48>>
ScenarioShinjuku == <<26032, 23487>>
ScenarioFutsal == <<12501, 12483, 12488, 12469, 12523>>
ScenarioTokyoTo == <<26481, 20140, 37117>>
ScenarioInputs == {ScenarioClock, ScenarioShinjuku, ScenarioFutsal, ScenarioTokyoTo}

Inputs ==
  Strings(AlphaNoise, MaxLen) \cup Strings(AlphaKana, MaxLen)
    \cup Strings(AlphaMixed, MaxLen) \cup ScenarioInputs

\* The same alphabets, for the runs that are followed to their end.
FairInputs ==
  Strings(AlphaNoise, MaxFairLen) \cup Strings(AlphaKana, MaxFairLen)
    \cup Strings(AlphaMixed, MaxFairLen) \cup ScenarioInputs

\* Every dictionary key, and the scenarios.
KeyInputs == {WORD_MAP[n][1] : n \in 1..Len(WORD_MAP)} \cup ScenarioInputs

\* 西 葛 (the keys '西葛西', '葛西')
AlphaKasai == {35199, 33883}
\* 中 目 黒 駅 (the keys '中目黒', '目黒駅', '目黒')
AlphaMeguro == {20013, 30446, 40658, 39365}
\* で す ま (the keys 'です', 'ます', both mapped to '')
AlphaCopula == {12391, 12377, 12414}

DictInputs ==
  Strings(AlphaKasai, MaxDictLen) \cup Strings(AlphaMeguro, MaxDictLen)
    \cup Strings(AlphaCopula, MaxDictLen)

\* ㄱ ㄴ ㄳ ㅏ 가 간 '1'
AlphaJamo == {12593, 12596, 12595, 12623, 44032, 44036, 49}
\* what follows a loose initial, medial, final: nothing, '1', ㅏ, ㅣ
JamoTails == {<< >>, <<49>>, <<12623>>, <<12643>>}

JamoInputs ==
  Strings(AlphaJamo, MaxJamoLen)
    \cup {<<INITIALS[a], MEDIALS[b], FINALS[c]>> \o tail :
           a \in 1..Len(INITIALS), b \in 1..Len(MEDIALS), c \in 2..Len(FINALS), tail \in JamoTails}

\* キ ャ ン (the compounds 'キャン', 'キャ') ッ カ (the compound 'ッカ') あ ん ㅏ
AlphaPhonetic == {12461, 12515, 12531, 12483, 12459, 12354, 12435, 12623}
\* 'ボンピン' (the example of the comment of composeHangul), 'キャンア'
ScenarioBonPin == <<12508, 12531, 12500, 12531>>
ScenarioCanA == <<12461, 12515, 12531, 12450>>

KanaInputs == Strings(AlphaPhonetic, MaxKanaLen) \cup {ScenarioBonPin, ScenarioCanA}

\* The state before transliterate(t, l) runs its first statement.
CallState(t, l) ==
  /\ entry = "transliterate"
  /\ text = t
  /\ lang = l
  /\ pc = "call"
  /\ result = << >>
  /\ i = 0
  /\ transliterated = << >>
  /\ compText = << >>
  /\ compResult = << >>
  /\ compI = 0
  /\ ret = << >>
  /\ inv = << >>
  /\ ServerIdle

\* The state before composeHangul(t), an export of the module, runs its
\* first statement.
ComposeCallState(t) ==
  /\ entry = "composeHangul"
  /\ text = << >>
  /\ lang = "ko"
  /\ pc = "compcall"
  /\ result = << >>
  /\ i = 0
  /\ transliterated = << >>
  /\ compText = t
  /\ compResult = << >>
  /\ compI = 0
  /\ ret = << >>
  /\ inv = << >>
  /\ ServerIdle

Langs == {"ko", "ja"}

Init == \E t \in Inputs, l \in Langs : CallState(t, l)

InitFair == \E t \in FairInputs, l \in Langs : CallState(t, l)

InitKeys == \E t \in KeyInputs, l \in Langs : CallState(t, l)

InitDict == \E t \in DictInputs, l \in Langs : CallState(t, l)

\* Every dictionary key with a nasal, 'ン' or 'ん', right after it.
KeyNasalInputs == {WORD_MAP[n][1] \o <<c>> : n \in 1..Len(WORD_MAP), c \in {12531, 12435}}

InitKeyNasal == \E t \in KeyNasalInputs, l \in Langs : CallState(t, l)

\* の 溝 口 施 設 あ: the particle, the keys around it ('溝の口', 'の施設') and
\* a hiragana that is no key.
AlphaParticle == {12398, 28317, 21475, 26045, 35373, 12354}

ParticleInputs == Strings(AlphaParticle, MaxParticleLen)

InitParticle == \E t \in ParticleInputs, l \in Langs : CallState(t, l)

InitKana == \E t \in KanaInputs, l \in Langs : CallState(t, l)

\* The state before composeHangulSyllable(initial, medial) or
\* composeHangulSyllable(initial, medial, final) runs its first statement; t
\* holds the arguments.
SyllableCallState(t) ==
  /\ entry = "composeHangulSyllable"
  /\ text = << >>
  /\ lang = "ko"
  /\ pc = "sylcall"
  /\ result = << >>
  /\ i = 0
  /\ transliterated = << >>
  /\ compText = t
  /\ compResult = << >>
  /\ compI = 0
  /\ ret = << >>
  /\ inv = << >>
  /\ ServerIdle

\* Every initial and medial, with the final left out or with each of the 27
\* final jamo (the calls at lines 186, 210, 214 and 219).
SyllableInputs ==
  {<<INITIALS[a], MEDIALS[b]>> : a \in 1..Len(INITIALS), b \in 1..Len(MEDIALS)}
    \cup {<<INITIALS[a], MEDIALS[b], FINALS[c]>> :
            a \in 1..Len(INITIALS), b \in 1..Len(MEDIALS), c \in 2..Len(FINALS)}

InitSyllable == \E t \in SyllableInputs : SyllableCallState(t)

InitCompose == \E t \in JamoInputs : ComposeCallState(t)

\* --------------------------------------------------------------------------
\* The steps
\* --------------------------------------------------------------------------

\* Call with the pass-through test left out: every non-empty text is
\* transliterated.
CallWithoutPassThrough ==
  /\ pc = "call"
  /\ IF text = << >>
     THEN pc' = "done" /\ ret' = << >> /\ UNCHANGED result
     ELSE pc' = "dict" /\ result' = text /\ UNCHANGED ret
  /\ UNCHANGED <<entry, text, lang, i, transliterated, compText, compResult, compI, inv, server>>

\* if (!text) return ''; if (lang === 'ja') return text; let result = text;
Call ==
  /\ pc = "call"
  /\ IF text = << >>
     THEN pc' = "done" /\ ret' = << >> /\ UNCHANGED result
     ELSE IF lang = "ja"
     THEN pc' = "done" /\ ret' = text /\ UNCHANGED result
     ELSE pc' = "dict" /\ result' = text /\ UNCHANGED ret
  /\ UNCHANGED <<entry, text, lang, i, transliterated, compText, compResult, compI, inv, server>>

\* Step 1: the whole for loop over WORD_MAP_KEYS, then the initialisation of
\* Step 2.
WordMapLoop ==
  /\ pc = "dict"
  /\ result' = ApplyWordMap(result)
  /\ transliterated' = << >>
  /\ i' = 0
  /\ pc' = "phon"
  /\ UNCHANGED <<entry, text, lang, compText, compResult, compI, ret, inv, server>>

\* The iteration with = in place of += : the buffer is overwritten by what
\* the step emits.
PhoneticStepOverwrites ==
  /\ pc = "phon"
  /\ i < Len(result)
  /\ LET step == PhoneticAt(result, i)
     IN  /\ transliterated' = step.emit
         /\ i' = i + step.adv
  /\ UNCHANGED <<entry, text, lang, pc, result, compText, compResult, compI, ret, inv, server>>

\* Step 2: one iteration of while (i < result.length).
PhoneticStep ==
  /\ pc = "phon"
  /\ i < Len(result)
  /\ LET step == PhoneticAt(result, i)
     IN  /\ transliterated' = transliterated \o step.emit
         /\ i' = i + step.adv
  /\ UNCHANGED <<entry, text, lang, pc, result, compText, compResult, compI, ret, inv, server>>

\* Step 3: the loop of Step 2 is over, composeHangul(transliterated) is called.
ComposeCall ==
  /\ pc = "phon"
  /\ i >= Len(result)
  /\ compText' = transliterated
  /\ pc' = "compcall"
  /\ UNCHANGED <<entry, text, lang, result, i, transliterated, compResult, compI, ret, inv, server>>

\* The call of composeHangul left out: transliterate returns the Step 2
\* buffer as it is.
ComposeSkipped ==
  /\ pc = "compcall"
  /\ pc' = "done" /\ ret' = compText /\ UNCHANGED <<compResult, compI>>
  /\ UNCHANGED <<entry, text, lang, result, i, transliterated, compText, inv, server>>

\* composeHangul: if (!text) return ''; const result = []; let i = 0;
ComposeEnter ==
  /\ pc = "compcall"
  /\ IF compText = << >>
     THEN pc' = "done" /\ ret' = << >> /\ UNCHANGED <<compResult, compI>>
     ELSE pc' = "comp" /\ compResult' = << >> /\ compI' = 0 /\ UNCHANGED ret
  /\ UNCHANGED <<entry, text, lang, result, i, transliterated, compText, inv, server>>

\* The iteration without the look at the character after the candidate
\* final of a complete syllable: the final is attached as batchim even when a
\* medial follows it.
ComposeStepSyllableGreedy ==
  /\ pc = "comp"
  /\ compI < Len(compText)
  /\ LET step == ComposeAt(compText, compI)
         char == compText[compI + 1]
         decomposed == decomposeHangul(char)
     IN  IF step.branch = "syllable-next-initial" /\ decomposed.final = << >>
         THEN /\ compResult' = compResult \o
                     composeHangulSyllable(decomposed.initial, decomposed.medial, <<compText[compI + 2]>>)
              /\ compI' = compI + 2
         ELSE /\ compResult' = compResult \o step.push
              /\ compI' = compI + step.adv
  /\ UNCHANGED <<entry, text, lang, pc, result, i, transliterated, compText, ret, inv, server>>

\* The iteration without the else of line 223: an initial jamo that no
\* medial follows is pushed nowhere.
ComposeStepDropsLoneInitial ==
  /\ pc = "comp"
  /\ compI < Len(compText)
  /\ LET step == ComposeAt(compText, compI)
     IN  /\ compResult' = IF step.branch = "initial-alone" THEN compResult
                          ELSE compResult \o step.push
         /\ compI' = compI + step.adv
  /\ UNCHANGED <<entry, text, lang, pc, result, i, transliterated, compText, ret, inv, server>>

\* The iteration without the last else (line 226): a character that is
\* neither a syllable nor an initial jamo is pushed nowhere.
ComposeStepDropsOther ==
  /\ pc = "comp"
  /\ compI < Len(compText)
  /\ LET step == ComposeAt(compText, compI)
     IN  /\ compResult' = IF step.branch = "other" THEN compResult
                          ELSE compResult \o step.push
         /\ compI' = compI + step.adv
  /\ UNCHANGED <<entry, text, lang, pc, result, i, transliterated, compText, ret, inv, server>>

\* The iteration without the test for a final after initial and medial
\* (line 205): the pair is composed and a final that follows is left loose.
ComposeStepSplitsBatchim ==
  /\ pc = "comp"
  /\ compI < Len(compText)
  /\ LET step == ComposeAt(compText, compI)
     IN  IF step.branch = "jamo-batchim"
         THEN /\ compResult' = compResult \o
                     composeHangulSyllable(<<compText[compI + 1]>>, <<compText[compI + 2]>>, << >>)
              /\ compI' = compI + 2
         ELSE /\ compResult' = compResult \o step.push
              /\ compI' = compI + step.adv
  /\ UNCHANGED <<entry, text, lang, pc, result, i, transliterated, compText, ret, inv, server>>

\* composeHangul: one iteration of while (i < text.length).
ComposeStep ==
  /\ pc = "comp"
  /\ compI < Len(compText)
  /\ LET step == ComposeAt(compText, compI)
     IN  /\ compResult' = compResult \o step.push
         /\ compI' = compI + step.adv
  /\ UNCHANGED <<entry, text, lang, pc, result, i, transliterated, compText, ret, inv, server>>

\* composeHangul: return result.join(''), which transliterate returns as is.
ComposeReturn ==
  /\ pc = "comp"
  /\ compI >= Len(compText)
  /\ ret' = compResult
  /\ pc' = "done"
  /\ UNCHANGED <<entry, text, lang, result, i, transliterated, compText, compResult, compI, inv, server>>

\* composeHangulSyllable(initial, medial, final = ''), from call to return.
SyllableCall ==
  /\ pc = "sylcall"
  /\ ret' = composeHangulSyllable(<<compText[1]>>, <<compText[2]>>,
                                   IF Len(compText) = 3 THEN <<compText[3]>> ELSE << >>)
  /\ pc' = "done"
  /\ UNCHANGED <<entry, text, lang, result, i, transliterated, compText, compResult, compI, inv, server>>

Next ==
  \/ Call
  \/ WordMapLoop
  \/ PhoneticStep
  \/ ComposeCall
  \/ ComposeEnter
  \/ ComposeStep
  \/ ComposeReturn

\* composeHangul called on its own.
NextCompose ==
  \/ ComposeEnter
  \/ ComposeStep
  \/ ComposeReturn

\* transliterate on the general inputs.
Spec == Init /\ [][Next]_vars

\* transliterate with the run-to-completion of a synchronous call: a call
\* that can take a step takes it.
SpecFair == InitFair /\ [][Next]_vars /\ WF_vars(Next)

\* transliterate on every dictionary key and on the scenarios.
SpecKeys == InitKeys /\ [][Next]_vars

\* transliterate on strings built from the characters of nested and
\* overlapping dictionary keys.
SpecDict == InitDict /\ [][Next]_vars

\* transliterate on every dictionary key followed by a nasal.
SpecKeyNasal == InitKeyNasal /\ [][Next]_vars

\* transliterate on strings with the particle 'の'.
SpecParticle == InitParticle /\ [][Next]_vars

\* transliterate on kana strings: compounds, the small tsu, the nasals.
SpecKana == InitKana /\ [][Next]_vars

\* composeHangulSyllable on every triple of jamo.
SpecSyllable == InitSyllable /\ [][SyllableCall]_vars

\* composeHangul on jamo strings.
SpecCompose == InitCompose /\ [][NextCompose]_vars

\* --------------------------------------------------------------------------
\* Invocations side by side
\* --------------------------------------------------------------------------

\* The invocations in flight together.
Procs == {1, 2, 3}

\* '' , '新宿' (a dictionary key), 'キャン' (a compound), 'あン' (a syllable and
\* a loose final to compose), '1' (nothing to do)
ConcInputs == {<< >>, ScenarioShinjuku, <<12461, 12515, 12531>>, <<12354, 12531>>, <<49>>}

\* The arguments and locals of one invocation before its first statement.
InvCallState(t, l) ==
  [text |-> t, lang |-> l, pc |-> "call", result |-> << >>, i |-> 0,
   transliterated |-> << >>, compText |-> << >>, compResult |-> << >>,
   compI |-> 0, ret |-> << >>]

\* The next statement of one invocation, on its own locals: the steps Call,
\* WordMapLoop, PhoneticStep, ComposeCall, ComposeEnter, ComposeStep and
\* ComposeReturn, in the order the code runs them.
InvNext(s) ==
  CASE s.pc = "call" ->
         IF s.text = << >> THEN [s EXCEPT !.pc = "done", !.ret = << >>]
         ELSE IF s.lang = "ja" THEN [s EXCEPT !.pc = "done", !.ret = s.text]
         ELSE [s EXCEPT !.pc = "dict", !.result = s.text]
    [] s.pc = "dict" ->
         [s EXCEPT !.result = ApplyWordMap(s.result), !.transliterated = << >>,
                   !.i = 0, !.pc = "phon"]
    [] s.pc = "phon" ->
         IF s.i < Len(s.result)
         THEN LET step == PhoneticAt(s.result, s.i)
              IN  [s EXCEPT !.transliterated = s.transliterated \o step.emit,
                            !.i = s.i + step.adv]
         ELSE [s EXCEPT !.compText = s.transliterated, !.pc = "compcall"]
    [] s.pc = "compcall" ->
         IF s.compText = << >> THEN [s EXCEPT !.pc = "done", !.ret = << >>]
         ELSE [s EXCEPT !.pc = "comp", !.compResult = << >>, !.compI = 0]
    [] s.pc = "comp" ->
         IF s.compI < Len(s.compText)
         THEN LET step == ComposeAt(s.compText, s.compI)
              IN  [s EXCEPT !.compResult = s.compResult \o step.push,
                            !.compI = s.compI + step.adv]
         ELSE [s EXCEPT !.ret = s.compResult, !.pc = "done"]

InitConc ==
  /\ entry = "concurrent"
  /\ text = << >> /\ lang = "ko" /\ pc = "idle"
  /\ result = << >> /\ i = 0 /\ transliterated = << >>
  /\ compText = << >> /\ compResult = << >> /\ compI = 0 /\ ret = << >>
  /\ inv \in [Procs -> {InvCallState(t, l) : t \in ConcInputs, l \in Langs}]
  /\ ServerIdle

\* The Step 2 buffer hoisted out of the function: one `transliterated` at
\* module level, which every invocation in flight appends to and reads.
InvStepSharedBuffer(p) ==
  /\ inv[p].pc # "done"
  /\ LET s2 == InvNext(inv[p])
     IN  inv' = [q \in Procs |->
                   IF q = p THEN s2
                   ELSE [inv[q] EXCEPT !.transliterated = s2.transliterated]]
  /\ UNCHANGED <<entry, text, lang, pc, result, i, transliterated, compText, compResult, compI, ret, server>>

\* One statement of the invocation p; the other invocations stand still.
InvStep(p) ==
  /\ inv[p].pc # "done"
  /\ inv' = [inv EXCEPT ![p] = InvNext(inv[p])]
  /\ UNCHANGED <<entry, text, lang, pc, result, i, transliterated, compText, compResult, compI, ret, server>>

NextConc == \E p \in Procs : InvStep(p)

\* Invocations of transliterate interleaved statement by statement.
SpecConc == InitConc /\ [][NextConc]_vars


\* ==========================================================================
\* THE CRAWLER: crawlLaBOLA and crawlDate (src/unnamed/part_006)
\* ==========================================================================

\* A date string 'yyyy-MM-dd' is the number of its day.  new Date, addDays and
\* format (lines 23 and 26) then add the offset to it, which is what they do
\* in a process whose time zone is UTC, where the endpoints are deployed.

MaxCards == 1
MaxSitePages == 2
MaxDays == 6

\* What the site answers to the request for one page: a failure (a network
\* error, the timeout of line 68, a status axios rejects, a body that cannot be
\* loaded), or a page with so many event cards, with or without the link to
\* the next page.
Failure == [ok |-> FALSE, cards |-> 0, next |-> FALSE]

PageResponses ==
  {Failure} \cup {[ok |-> TRUE, cards |-> c, next |-> n] : c \in 0..MaxCards, n \in BOOLEAN}

\* The answers of a site that has at most MaxSitePages pages for a date, each
\* of them empty or full.
SiteResponses(page) ==
  {r \in PageResponses : r.cards \in {0, MaxCards} /\ (page < MaxSitePages \/ ~r.next)}

\* The events the callback of eventCards.each pushes for the cards of a page;
\* an event is known by its date, its page and its place on the page.
CardsOf(dateStr, page, cards) ==
  [k \in 1..cards |-> [isoDate |-> dateStr, page |-> page, card |-> k]]

\* The safety limit of the while loop.
PAGE_LIMIT == 10

\* crawlDate(dateStr) before its first await: the locals of lines 54-56.
CrawlDateCallState(dateStr) ==
  [pc |-> "call", dateStr |-> dateStr, page |-> 1, keepFetching |-> TRUE, dateEvents |-> << >>]

\* The head of the while loop with the limit one page further.
CrawlDateLoopLimitEleven(c) ==
  IF c.keepFetching /\ ~(c.page > PAGE_LIMIT + 1)
  THEN [c EXCEPT !.pc = "fetch"]
  ELSE [c EXCEPT !.pc = "returned"]

\* The head of the while loop: the condition, the safety limit, and the
\* request for the page, on which the call waits; or the return.
CrawlDateLoop(c) ==
  IF c.keepFetching /\ ~(c.page > PAGE_LIMIT)
  THEN [c EXCEPT !.pc = "fetch"]
  ELSE [c EXCEPT !.pc = "returned"]

\* The body of the loop from the answer to the request on, and the head of
\* the loop once more.
CrawlDateOnResponse(c, resp) ==
  IF ~resp.ok
  THEN CrawlDateLoop([c EXCEPT !.keepFetching = FALSE])
  ELSE IF resp.cards = 0
  THEN [c EXCEPT !.keepFetching = FALSE, !.pc = "returned"]
  ELSE LET pushed == [c EXCEPT !.dateEvents = @ \o CardsOf(c.dateStr, c.page, resp.cards)]
       IN  IF ~resp.next
           THEN CrawlDateLoop([pushed EXCEPT !.keepFetching = FALSE])
           ELSE CrawlDateLoop([pushed EXCEPT !.page = @ + 1])

\* The requests the site has seen and the answers it gave, next to the call.
CrawlDateLog(c, requested, answered) ==
  c @@ [requested |-> IF c.pc = "fetch" THEN Append(requested, c.page) ELSE requested,
        answered |-> answered]

CrawlDateLocals(c) ==
  [f \in {"pc", "dateStr", "page", "keepFetching", "dateEvents"} |-> c[f]]

InitCrawlDate ==
  /\ EngineIdle
  /\ crawlDateCall \in {CrawlDateLog(CrawlDateCallState(d), << >>, << >>) : d \in 1..MaxDays}
  /\ crawlCall = Idle /\ crawlReq = Idle /\ cleanupReq = Idle /\ eventsReq = Idle

\* crawlDate runs to its first axios.get.
CrawlDateEnter ==
  /\ crawlDateCall.pc = "call"
  /\ crawlDateCall' = CrawlDateLog(CrawlDateLoop(CrawlDateLocals(crawlDateCall)),
                                   crawlDateCall.requested, crawlDateCall.answered)
  /\ UNCHANGED <<engine, crawlCall, crawlReq, cleanupReq, eventsReq>>

\* The awaited axios.get settles and crawlDate runs to the next one or returns.
CrawlDateFetched ==
  /\ crawlDateCall.pc = "fetch"
  /\ \E resp \in PageResponses :
       crawlDateCall' = CrawlDateLog(CrawlDateOnResponse(CrawlDateLocals(crawlDateCall), resp),
                                     crawlDateCall.requested,
                                     Append(crawlDateCall.answered, resp))
  /\ UNCHANGED <<engine, crawlCall, crawlReq, cleanupReq, eventsReq>>

NextCrawlDate == CrawlDateEnter \/ CrawlDateFetched

\* One call of crawlDate.
SpecCrawlDate == InitCrawlDate /\ [][NextCrawlDate]_vars

\* One call of crawlDate; every request settles, by an answer or by the
\* timeout of line 68.
SpecCrawlDateFair == SpecCrawlDate /\ WF_vars(NextCrawlDate)


\* --------------------------------------------------------------------------
\* crawlLaBOLA

CONCURRENCY == 5

\* parseInt's NaN; no negative count is among the inputs.
NaN == -1

\* The loop of lines 25-27: the dates startDate, startDate + 1, ...; it does
\* not run for a count that is NaN or 0.
DatesToCrawl(startDate, days) ==
  IF days = NaN THEN << >> ELSE [k \in 1..days |-> startDate + (k - 1)]

\* The slice one date longer than the step of the loop.
BatchOverlong(datesToCrawl, from) ==
  SubSeq(datesToCrawl, from + 1,
         IF from + CONCURRENCY + 1 < Len(datesToCrawl)
         THEN from + CONCURRENCY + 1 ELSE Len(datesToCrawl))

\* datesToCrawl.slice(i, i + CONCURRENCY)
Batch(datesToCrawl, from) ==
  SubSeq(datesToCrawl, from + 1,
         IF from + CONCURRENCY < Len(datesToCrawl)
         THEN from + CONCURRENCY ELSE Len(datesToCrawl))

\* The arrays of events of the calls of a batch, pushed one after the other.
RECURSIVE PushAll(_, _)
PushAll(calls, n) ==
  IF n = 0 THEN << >> ELSE PushAll(calls, n - 1) \o calls[n].dateEvents

\* crawlLaBOLA(startDate, days) before its first statement; `crawled` lists
\* the dates crawlDate was called with.
CrawlLaBOLACallState(startDate, days) ==
  [pc |-> "call", startDate |-> startDate, days |-> days, datesToCrawl |-> << >>,
   i |-> 0, calls |-> << >>, results |-> << >>, crawled |-> << >>]

\* The head of the for loop of line 36: the next batch is sliced and
\* crawlDate is called for each of its dates, each call running to its first
\* await, and Promise.all is awaited; or the results are returned.
CrawlLaBOLALoop(c) ==
  IF c.i < Len(c.datesToCrawl)
  THEN LET batch == Batch(c.datesToCrawl, c.i)
       IN  [c EXCEPT !.pc = "batch",
                     !.calls = [k \in 1..Len(batch) |-> CrawlDateLoop(CrawlDateCallState(batch[k]))],
                     !.crawled = @ \o batch]
  ELSE [c EXCEPT !.pc = "returned", !.calls = << >>]

\* Lines 23-36.
CrawlLaBOLAEnter(c) ==
  CrawlLaBOLALoop([c EXCEPT !.datesToCrawl = DatesToCrawl(c.startDate, c.days)])

\* The request of the k-th call of the batch settles.
CrawlLaBOLAFetched(c, k, resp) ==
  [c EXCEPT !.calls[k] = CrawlDateOnResponse(@, resp)]

\* Every call of the batch has returned (crawlDate catches what it awaits, so
\* Promise.all never rejects and the catch of line 45 is not entered): the
\* results are pushed in batch order, and the loop goes on.
CrawlLaBOLASettled(c) ==
  CrawlLaBOLALoop([c EXCEPT !.results = @ \o PushAll(c.calls, Len(c.calls)),
                            !.i = @ + CONCURRENCY])

InitCrawl ==
  /\ EngineIdle
  /\ crawlCall \in {CrawlLaBOLACallState(1, days) : days \in {NaN} \cup 0..MaxDays}
  /\ crawlDateCall = Idle /\ crawlReq = Idle /\ cleanupReq = Idle /\ eventsReq = Idle

CrawlEnter ==
  /\ crawlCall.pc = "call"
  /\ crawlCall' = CrawlLaBOLAEnter(crawlCall)
  /\ UNCHANGED <<engine, crawlDateCall, crawlReq, cleanupReq, eventsReq>>

CrawlFetched ==
  /\ crawlCall.pc = "batch"
  /\ \E k \in 1..Len(crawlCall.calls) :
       /\ crawlCall.calls[k].pc = "fetch"
       /\ \E resp \in SiteResponses(crawlCall.calls[k].page) :
            crawlCall' = CrawlLaBOLAFetched(crawlCall, k, resp)
  /\ UNCHANGED <<engine, crawlDateCall, crawlReq, cleanupReq, eventsReq>>

CrawlSettled ==
  /\ crawlCall.pc = "batch"
  /\ \A k \in 1..Len(crawlCall.calls) : crawlCall.calls[k].pc = "returned"
  /\ crawlCall' = CrawlLaBOLASettled(crawlCall)
  /\ UNCHANGED <<engine, crawlDateCall, crawlReq, cleanupReq, eventsReq>>

NextCrawl == CrawlEnter \/ CrawlFetched \/ CrawlSettled

\* One call of crawlLaBOLA with the calls of crawlDate it makes.
SpecCrawl == InitCrawl /\ [][NextCrawl]_vars


\* ==========================================================================
\* THE CLEANUP ENDPOINT (src/app/api/events/route.ts, lines 70-174)
\* ==========================================================================

MaxEvents == 6

BATCH_SIZE == 5

\* How a HEAD request ends: with a response of some status, or without one
\* (a network error, the timeout of line 86).
HeadOutcomes ==
  {[responded |-> TRUE, status |-> s] : s \in {200, 403, 404, 503}}
    \cup {[responded |-> FALSE, status |-> 0]}

\* checkUrl with a catch that returns false.
checkUrlCatchInvalid(outcome) ==
  IF ~outcome.responded \/ ~(outcome.status < 500)
  THEN FALSE
  ELSE outcome.status # 404

\* checkUrl(url), by how the HEAD request ends: axios.head rejects when there
\* is no response and when validateStatus refuses the status, and the catch
\* returns true.
checkUrl(outcome) ==
  IF ~outcome.responded \/ ~(outcome.status < 500)
  THEN TRUE
  ELSE outcome.status # 404

\* The request before the handler runs; the rows of `match` for the date have
\* the ids 1 .. n.  `heads` lists the HEAD requests that ended, `deletes` the
\* delete requests issued.
CleanupCallState(date, n) ==
  [pc |-> "call", date |-> date, rows |-> 1..n, table |-> 1..n, events |-> << >>,
   i |-> 0, checks |-> << >>, invalidEvents |-> << >>,
   heads |-> {}, deletes |-> << >>, response |-> [status |-> 0, success |-> FALSE]]

Respond(c, status, success) ==
  [c EXCEPT !.pc = "responded", !.response = [status |-> status, success |-> success]]

\* results.forEach of lines 138-142
RECURSIVE PushInvalid(_, _)
PushInvalid(checks, n) ==
  IF n = 0 THEN << >>
  ELSE PushInvalid(checks, n - 1) \o (IF ~checks[n].isValid THEN <<checks[n].id>> ELSE << >>)

\* The head of the for loop of line 128: the next batch is sliced and checkUrl
\* is called for each of its events; after the loop, step 3: the delete is
\* issued if there is an invalid event, or the response is sent.
CleanupLoop(c) ==
  IF c.i < Len(c.events)
  THEN LET batch == SubSeq(c.events, c.i + 1,
                           IF c.i + BATCH_SIZE < Len(c.events) THEN c.i + BATCH_SIZE ELSE Len(c.events))
       IN  [c EXCEPT !.pc = "check",
                     !.checks = [k \in 1..Len(batch) |->
                                   [id |-> batch[k], settled |-> FALSE, isValid |-> TRUE]]]
  ELSE IF Len(c.invalidEvents) > 0
  THEN [c EXCEPT !.pc = "delete", !.checks = << >>, !.deletes = Append(@, c.invalidEvents)]
  ELSE Respond([c EXCEPT !.checks = << >>], 200, TRUE)

\* The rows of a set of ids as the array the select returns.
RECURSIVE RowsOf(_)
RowsOf(ids) ==
  IF ids = {} THEN << >>
  ELSE LET last == CHOOSE x \in ids : \A y \in ids : y <= x
       IN  Append(RowsOf(ids \ {last}), last)

InitCleanup ==
  /\ EngineIdle
  /\ cleanupReq \in {CleanupCallState(date, n) : date \in {"", "2026-01-10"}, n \in 0..MaxEvents}
  /\ crawlDateCall = Idle /\ crawlCall = Idle /\ crawlReq = Idle /\ eventsReq = Idle

\* Lines 100-112: without a date the answer is 400, else the select is issued.
CleanupEnter ==
  /\ cleanupReq.pc = "call"
  /\ cleanupReq' = IF cleanupReq.date = ""
                   THEN Respond(cleanupReq, 400, FALSE)
                   ELSE [cleanupReq EXCEPT !.pc = "select"]
  /\ UNCHANGED <<engine, crawlDateCall, crawlCall, crawlReq, eventsReq>>

\* Lines 109-129: the select returns an error, no data, or the rows.
CleanupSelected ==
  /\ cleanupReq.pc = "select"
  /\ \E answer \in {"error", "null", "rows"} :
       cleanupReq' =
         IF answer = "error" THEN Respond(cleanupReq, 500, FALSE)
         ELSE IF answer = "null" \/ cleanupReq.table = {} THEN Respond(cleanupReq, 200, TRUE)
         ELSE CleanupLoop([cleanupReq EXCEPT !.events = RowsOf(cleanupReq.table)])
  /\ UNCHANGED <<engine, crawlDateCall, crawlCall, crawlReq, eventsReq>>

\* Lines 132-135: the HEAD request of one event of the batch ends.
CleanupChecked ==
  /\ cleanupReq.pc = "check"
  /\ \E k \in 1..Len(cleanupReq.checks), outcome \in HeadOutcomes :
       /\ ~cleanupReq.checks[k].settled
       /\ cleanupReq' =
            [cleanupReq EXCEPT !.checks[k] = [id |-> @.id, settled |-> TRUE, isValid |-> checkUrl(outcome)],
                               !.heads = @ \cup {[id |-> cleanupReq.checks[k].id, outcome |-> outcome]}]
  /\ UNCHANGED <<engine, crawlDateCall, crawlCall, crawlReq, eventsReq>>

\* Lines 131-152: Promise.all resolves, the invalid ids are pushed, and the
\* loop goes on.
CleanupSettled ==
  /\ cleanupReq.pc = "check"
  /\ \A k \in 1..Len(cleanupReq.checks) : cleanupReq.checks[k].settled
  /\ cleanupReq' =
       CleanupLoop([cleanupReq EXCEPT
                      !.invalidEvents = @ \o PushInvalid(cleanupReq.checks, Len(cleanupReq.checks)),
                      !.i = @ + BATCH_SIZE])
  /\ UNCHANGED <<engine, crawlDateCall, crawlCall, crawlReq, eventsReq>>

\* Lines 149-168: the delete returns, with an error or without.
CleanupDeleted ==
  /\ cleanupReq.pc = "delete"
  /\ \E deleteError \in BOOLEAN :
       cleanupReq' =
         IF deleteError THEN Respond(cleanupReq, 500, FALSE)
         ELSE Respond([cleanupReq EXCEPT
                         !.table = @ \ {cleanupReq.invalidEvents[k] : k \in 1..Len(cleanupReq.invalidEvents)}],
                      200, TRUE)
  /\ UNCHANGED <<engine, crawlDateCall, crawlCall, crawlReq, eventsReq>>

NextCleanup ==
  CleanupEnter \/ CleanupSelected \/ CleanupChecked \/ CleanupSettled \/ CleanupDeleted

\* One request to the cleanup endpoint.
SpecCleanup == InitCleanup /\ [][NextCleanup]_vars


\* ==========================================================================
\* THE CRAWL ENDPOINT (src/unnamed/part_003)
\* ==========================================================================

MaxReqDays == 2

\* A row of `match` that was there before the request, for a date.
Stale(d) == [isoDate |-> d, page |-> 0, card |-> 0]

\* The rows of the events of an array.
RowsIn(events) == {events[k] : k \in 1..Len(events)}

\* The request before the handler runs; `match` holds one row for each date
\* from the day before startDate on.  `ops` lists what the handler issued.
CrawlReqCallState(startDate, days, clean) ==
  [pc |-> "call", startDate |-> startDate, days |-> days, clean |-> clean,
   table |-> {Stale(d) : d \in (startDate - 1)..(startDate + MaxReqDays)},
   deleteError |-> FALSE, ops |-> << >>, response |-> [status |-> 0, success |-> FALSE]]

InitCrawlReq ==
  /\ EngineIdle
  /\ crawlReq \in {CrawlReqCallState(1, days, clean) :
                     days \in {NaN} \cup 0..MaxReqDays, clean \in BOOLEAN}
  /\ crawlDateCall = Idle /\ crawlCall = Idle /\ cleanupReq = Idle /\ eventsReq = Idle

\* Lines 11-25 and 35-36.  In clean mode the end date is formatted, which
\* throws for a count that is NaN (the catch of line 74 answers), and the
\* delete of the range is issued; else crawlLaBOLA is called.
CrawlReqEnter ==
  /\ crawlReq.pc = "call"
  /\ IF crawlReq.clean
     THEN /\ crawlReq' =
               IF crawlReq.days = NaN
               THEN Respond(crawlReq, 500, FALSE)
               ELSE [crawlReq EXCEPT
                       !.pc = "delete",
                       !.ops = Append(@, [op |-> "delete", from |-> crawlReq.startDate,
                                          to |-> crawlReq.startDate + (crawlReq.days - 1)])]
          /\ UNCHANGED crawlCall
     ELSE /\ crawlReq' = [crawlReq EXCEPT !.pc = "crawl", !.ops = Append(@, [op |-> "crawl"])]
          /\ crawlCall' = CrawlLaBOLACallState(crawlReq.startDate, crawlReq.days)
  /\ UNCHANGED <<engine, crawlDateCall, cleanupReq, eventsReq>>

\* The delete returns and, whatever it returned, the crawl is started.
CrawlReqDeletedIgnoresError ==
  /\ crawlReq.pc = "delete"
  /\ \E deleteError \in BOOLEAN :
       LET last == crawlReq.ops[Len(crawlReq.ops)]
       IN  /\ crawlReq' =
                [crawlReq EXCEPT
                   !.pc = "crawl", !.deleteError = deleteError,
                   !.table = IF deleteError THEN @
                             ELSE {row \in @ : ~(row.isoDate >= last.from /\ row.isoDate <= last.to)},
                   !.ops = Append(@, [op |-> "crawl"])]
           /\ crawlCall' = CrawlLaBOLACallState(crawlReq.startDate, crawlReq.days)
  /\ UNCHANGED <<engine, crawlDateCall, cleanupReq, eventsReq>>

\* Lines 21-36: the delete returns; with an error the answer is 500, else the
\* rows of the range are gone and crawlLaBOLA is called.
CrawlReqDeleted ==
  /\ crawlReq.pc = "delete"
  /\ \E deleteError \in BOOLEAN :
       LET last == crawlReq.ops[Len(crawlReq.ops)]
       IN  IF deleteError
           THEN /\ crawlReq' = Respond([crawlReq EXCEPT !.deleteError = TRUE], 500, FALSE)
                /\ UNCHANGED crawlCall
           ELSE /\ crawlReq' =
                     [crawlReq EXCEPT
                        !.pc = "crawl",
                        !.table = {row \in @ : ~(row.isoDate >= last.from /\ row.isoDate <= last.to)},
                        !.ops = Append(@, [op |-> "crawl"])]
                /\ crawlCall' = CrawlLaBOLACallState(crawlReq.startDate, crawlReq.days)
  /\ UNCHANGED <<engine, crawlDateCall, cleanupReq, eventsReq>>

\* Lines 36-60: crawlLaBOLA has returned, the events are mapped and the
\* upsert is issued.
CrawlReqCrawled ==
  /\ crawlReq.pc = "crawl"
  /\ crawlCall.pc = "returned"
  /\ crawlReq' = [crawlReq EXCEPT !.pc = "upsert", !.ops = Append(@, [op |-> "upsert"])]
  /\ UNCHANGED <<engine, crawlDateCall, crawlCall, cleanupReq, eventsReq>>

\* Lines 58-73: the upsert returns, with an error or without.
CrawlReqUpserted ==
  /\ crawlReq.pc = "upsert"
  /\ \E error \in BOOLEAN :
       crawlReq' =
         IF error THEN Respond(crawlReq, 500, FALSE)
         ELSE Respond([crawlReq EXCEPT !.table = @ \cup RowsIn(crawlCall.results)], 200, TRUE)
  /\ UNCHANGED <<engine, crawlDateCall, crawlCall, cleanupReq, eventsReq>>

NextCrawlReq ==
  \/ CrawlReqEnter \/ CrawlReqDeleted
  \/ CrawlEnter \/ CrawlFetched \/ CrawlSettled
  \/ CrawlReqCrawled \/ CrawlReqUpserted

\* One request to the crawl endpoint, with the crawl it awaits.
SpecCrawlReq == InitCrawlReq /\ [][NextCrawlReq]_vars


\* ==========================================================================
\* THE EVENTS ENDPOINT (src/app/api/events/route.ts, lines 1-68)
\* ==========================================================================

PAGE_SIZE == 1000

\* The safety limit of the paginated read.
MAX_PAGES == 50

\* What a range query returns: an error, no data, or an array of 0 up to
\* PAGE_SIZE rows.
QueryAnswers ==
  {[error |-> TRUE, data |-> FALSE, rows |-> 0], [error |-> FALSE, data |-> FALSE, rows |-> 0]}
    \cup {[error |-> FALSE, data |-> TRUE, rows |-> n] : n \in {0, 1, PAGE_SIZE - 1, PAGE_SIZE}}

\* The request before the handler runs: the locals of lines 13-15.  An array
\* of rows is the sequence of the pages it was read in, a page being known by
\* the range position it starts at and the number of its rows.  `queries` and
\* `answers` list the range queries issued and what they returned.
EventsCallState ==
  [pc |-> "call", allData |-> << >>, page |-> 0, hasMore |-> TRUE,
   queries |-> << >>, answers |-> << >>, events |-> << >>,
   response |-> [status |-> 0, success |-> FALSE]]

\* The head of the while loop: the range query of the page is issued, or the
\* rows are mapped and returned.
EventsLoop(c) ==
  IF c.hasMore
  THEN [c EXCEPT !.pc = "query",
                 !.queries = Append(@, [from |-> c.page * PAGE_SIZE,
                                        to |-> c.page * PAGE_SIZE + PAGE_SIZE - 1])]
  ELSE Respond([c EXCEPT !.events = c.allData], 200, TRUE)

\* The body of the loop with the test of lines 37-39 left out.
EventsOnAnswerKeepsReading(c, answer) ==
  IF answer.error
  THEN Respond(c, 500, FALSE)
  ELSE LET read == IF answer.data /\ answer.rows > 0
                   THEN [c EXCEPT !.allData = Append(@, [from |-> c.page * PAGE_SIZE, rows |-> answer.rows]),
                                  !.page = @ + 1]
                   ELSE [c EXCEPT !.hasMore = FALSE]
       IN  EventsLoop(IF read.page >= MAX_PAGES THEN [read EXCEPT !.hasMore = FALSE] ELSE read)

\* The body of the loop from the answer to the query on (lines 29-47), and
\* the head of the loop once more.
EventsOnAnswer(c, answer) ==
  IF answer.error
  THEN Respond(c, 500, FALSE)
  ELSE LET read == IF answer.data /\ answer.rows > 0
                   THEN [c EXCEPT !.allData = Append(@, [from |-> c.page * PAGE_SIZE, rows |-> answer.rows]),
                                  !.page = @ + 1,
                                  !.hasMore = IF answer.rows < PAGE_SIZE THEN FALSE ELSE @]
                   ELSE [c EXCEPT !.hasMore = FALSE]
       IN  EventsLoop(IF read.page >= MAX_PAGES THEN [read EXCEPT !.hasMore = FALSE] ELSE read)

InitEvents ==
  /\ EngineIdle
  /\ eventsReq = EventsCallState
  /\ crawlDateCall = Idle /\ crawlCall = Idle /\ crawlReq = Idle /\ cleanupReq = Idle

\* Lines 8-27: the handler runs to its first query.
EventsEnter ==
  /\ eventsReq.pc = "call"
  /\ eventsReq' = EventsLoop(eventsReq)
  /\ UNCHANGED <<engine, crawlDateCall, crawlCall, crawlReq, cleanupReq>>

\* The awaited query returns and the handler runs to the next one or answers.
EventsQueried ==
  /\ eventsReq.pc = "query"
  /\ \E answer \in QueryAnswers :
       eventsReq' = EventsOnAnswer([eventsReq EXCEPT !.answers = Append(@, answer)], answer)
  /\ UNCHANGED <<engine, crawlDateCall, crawlCall, crawlReq, cleanupReq>>

NextEvents == EventsEnter \/ EventsQueried

\* One request to the events endpoint.
SpecEvents == InitEvents /\ [][NextEvents]_vars

\* One request to the events endpoint; every awaited query returns.
SpecEventsFair == SpecEvents /\ WF_vars(NextEvents)


\* ==========================================================================
\* PROPERTIES
\* ==========================================================================

\* A string of the runtime: every element is a 16-bit code unit.
IsString(s) == \A j \in 1..Len(s) : s[j] \in 0..65535

Chars(s) == {s[j] : j \in 1..Len(s)}

\* C1 (totality): every call transliterate(x, "ko"), whatever x holds (nothing,
\* ASCII, a lone surrogate, NUL, kana, jamo), runs the dictionary loop and the
\* two scan loops to their end and returns a string.
C1_Totality ==
  (pc = "call" /\ lang = "ko") ~> (pc = "done" /\ IsString(ret))

\* A call on a text of noise with a lone surrogate has returned a string.
C1_Witness ==
  /\ pc = "done" /\ lang = "ko"
  /\ 55296 \in Chars(text)      \* 0xD800, a high surrogate with no low one
  /\ NUL \in Chars(text) /\ Len(text) >= 3
  /\ IsString(ret)

\* C2 (identity law): transliterate(x, "ja") returns exactly x.
C2_JaIdentity ==
  pc = "done" /\ lang = "ja" => ret = text

\* A "ja" call has returned a text that the "ko" stages would have changed.
C2_Witness ==
  /\ pc = "done" /\ lang = "ja" /\ entry = "transliterate"
  /\ ret = text
  /\ Transliterate(text, "ko") # text

\* The characters some table of the engine knows.
KeyChars == UNION {Chars(WORD_MAP[n][1]) : n \in 1..Len(WORD_MAP)}
CompoundChars == UNION {Chars(KATAKANA_COMPOUNDS[n][1]) : n \in 1..Len(KATAKANA_COMPOUNDS)}
JamoChars == Chars(INITIALS) \cup Chars(MEDIALS) \cup (Chars(FINALS) \ {NUL})
TableChars ==
  KeyChars \cup CompoundChars \cup DOMAIN KATAKANA_SINGLE \cup DOMAIN HIRAGANA_SINGLE
    \cup DOMAIN KANJI_MAP \cup JamoChars \cup {PROLONGED}

\* C7 (pass-through): a text none of whose characters occurs in a dictionary
\* key, a compound pattern, a kana or kanji table, the jamo tables or is the
\* prolonged-sound marker is returned unchanged by transliterate(x, "ko").
C7_Unchanged ==
  pc = "done" /\ lang = "ko" /\ entry = "transliterate" /\ Chars(text) \cap TableChars = {}
    => ret = text

\* "10:00-12:00" has been returned as it was.
C7_Witness ==
  pc = "done" /\ lang = "ko" /\ text = ScenarioClock /\ ret = ScenarioClock

\* C5 (dictionary keys): for every key K of WORD_MAP, transliterate(K, "ko")
\* returns exactly WORD_MAP[K].
C5_KeyGivesValue ==
  pc = "done" /\ lang = "ko" /\ entry = "transliterate" /\ IsWordMapKey(text)
    => ret = WordMapGet(text)

\* 'フットサル' has been returned as '풋살'.
C5_Witness ==
  pc = "done" /\ lang = "ko" /\ text = ScenarioFutsal /\ ret = <<54411, 49332>>

TokyoToKo == <<46020, 53188, 46020>>     \* '도쿄도'
TokyoKo == <<46020, 53188>>              \* '도쿄'
KanjiTo == <<37117>>                     \* '都'

\* C6 as claimed: '東京都' gives '도쿄도' by a dictionary match that covers all
\* three characters, so that the dictionary stage already leaves '도쿄도' and
\* no step of the phonetic stage takes the kanji fallback.
C6_WholeDictionaryMatch ==
  entry = "transliterate" /\ lang = "ko" /\ text = ScenarioTokyoTo =>
    /\ pc = "done" => ret = TokyoToKo
    /\ pc = "phon" => result = TokyoToKo
    /\ pc = "phon" /\ i < Len(result) => PhoneticAt(result, i).branch # "kanji"

\* C6 as the code has it: '東京都' gives '도쿄도'; the dictionary match '東京' ->
\* '도쿄' covers the first two characters only, and the third, '都', goes
\* through the kanji fallback table, which maps it to '도'.
C6_DictionaryThenKanji ==
  entry = "transliterate" /\ lang = "ko" /\ text = ScenarioTokyoTo =>
    /\ pc = "done" => ret = TokyoToKo
    /\ pc = "phon" => result = TokyoKo \o KanjiTo
    /\ pc = "phon" /\ i < 2 => PhoneticAt(result, i).branch = "pass"
    /\ pc = "phon" /\ i = 2 =>
         /\ PhoneticAt(result, i).branch = "kanji"
         /\ PhoneticAt(result, i).emit = <<TokyoToKo[3]>>

\* The phonetic stage has just mapped the '都' the dictionary stage left.
C6_Witness ==
  /\ pc = "phon" /\ lang = "ko" /\ text = ScenarioTokyoTo
  /\ result[3] = KanjiTo[1] /\ i = 3 /\ transliterated = TokyoToKo

\* The keys, by their place in WORD_MAP, that hold a strictly shorter key.
ParentKeys ==
  {n \in 1..Len(WORD_MAP) :
     \E m \in 1..Len(WORD_MAP) :
       /\ Len(WORD_MAP[m][1]) < Len(WORD_MAP[n][1])
       /\ StrIncludes(WORD_MAP[n][1], WORD_MAP[m][1])}

\* The occurrence of the n-th key at position p of the text is replaced by the
\* key's value, the text before it and the text after it going through the
\* dictionary stage on their own, and the later stages work on that string.
ReflectsKeyAt(n, p) ==
  LET key      == WORD_MAP[n][1]
      before   == SubSeq(text, 1, p)
      after    == SubSeq(text, p + Len(key) + 1, Len(text))
      expected == ApplyWordMap(before) \o WORD_MAP[n][2] \o ApplyWordMap(after)
  IN  /\ result = expected
      /\ ret = composeHangul(PhoneticStage(expected))

\* The m-th key is longer than the n-th, or as long and inserted earlier.
LongerOrEarlier(m, n) ==
  \/ Len(WORD_MAP[m][1]) > Len(WORD_MAP[n][1])
  \/ Len(WORD_MAP[m][1]) = Len(WORD_MAP[n][1]) /\ m < n

\* No occurrence of a key that is longer than the n-th or as long and inserted
\* earlier, and no occurrence of the n-th key itself that starts further left,
\* overlaps the occurrence at p.
NoEarlierOverlap(n, p) ==
  \A m \in 1..Len(WORD_MAP) : \A q \in 0..(Len(text) - 1) :
    /\ OccursAt(text, WORD_MAP[m][1], q)
    /\ LongerOrEarlier(m, n) \/ (m = n /\ q < p)
    => \/ q + Len(WORD_MAP[m][1]) <= p
       \/ p + Len(WORD_MAP[n][1]) <= q

\* C3 as claimed (dictionary precedence): wherever a key K1 that holds a
\* shorter key K2 occurs in the text, the output has K1's replacement there,
\* whatever other keys occur in or overlap that part of the text.
C3_LongerKeyAlwaysWins ==
  pc = "done" /\ lang = "ko" /\ entry = "transliterate" =>
    \A n \in ParentKeys : \A p \in 0..(Len(text) - 1) :
      OccursAt(text, WORD_MAP[n][1], p) => ReflectsKeyAt(n, p)

\* C3 as the code has it: the output has K1's replacement at an occurrence
\* of K1 provided no occurrence of a longer key, of an equally long key
\* inserted earlier, or of K1 itself starting further left overlaps it.
C3_LongerKeyWinsUnlessOverlapped ==
  pc = "done" /\ lang = "ko" /\ entry = "transliterate" =>
    \A n \in ParentKeys : \A p \in 0..(Len(text) - 1) :
      OccursAt(text, WORD_MAP[n][1], p) /\ NoEarlierOverlap(n, p) => ReflectsKeyAt(n, p)

NakaMeguro == <<20013, 30446, 40658>>                    \* '中目黒'
NakaMeguroKo == <<45208, 52852, 47700, 44396, 47196>>    \* '나카메구로'

\* '黒中目黒' has been returned with '中目黒', which holds the key '目黒',
\* replaced as a whole.
C3_Witness ==
  /\ pc = "done" /\ lang = "ko"
  /\ text = <<40658>> \o NakaMeguro
  /\ \E n \in ParentKeys : WORD_MAP[n][1] = NakaMeguro /\ NoEarlierOverlap(n, 1)
  /\ result = <<40658>> \o NakaMeguroKo

\* The keys mapped to the empty string ('です', 'ます').
HasEmptiedKey(s) ==
  \E n \in 1..Len(WORD_MAP) : WORD_MAP[n][2] = << >> /\ StrIncludes(s, WORD_MAP[n][1])

HasAnyKey(s) == \E n \in 1..Len(WORD_MAP) : StrIncludes(s, WORD_MAP[n][1])

\* C4 as claimed (postcondition of the dictionary stage): the string the loop
\* over WORD_MAP_KEYS leaves holds no occurrence of any key, occurrences that
\* a replacement brought into existence included.
C4_NoKeyLeft ==
  pc = "phon" /\ lang = "ko" => ~HasAnyKey(result)

\* C4 as the code has it: each key is replaced once, in its turn, so the
\* string the loop leaves holds no key provided the text holds no key that is
\* mapped to the empty string; removing such a key can join its neighbours
\* into a key whose turn is over.
C4_NoKeyLeftUnlessEmptied ==
  pc = "phon" /\ lang = "ko" /\ ~HasEmptiedKey(text) => ~HasAnyKey(result)

\* '目黒駅目黒' has left the dictionary stage as '메구로역메구로'.
C4_Witness ==
  /\ pc = "phon" /\ lang = "ko"
  /\ text = <<30446, 40658, 39365, 30446, 40658>>
  /\ ~HasEmptiedKey(text)
  /\ result = <<47700, 44396, 47196, 50669, 47700, 44396, 47196>>
  /\ ~HasAnyKey(result)

AsaKusaSplit == <<27973, 12540, 33609>>          \* '浅ー草'
AsaKusa == <<27973, 33609>>                      \* '浅草'
AsaKusaKo == <<50500, 49324, 53216, 49324>>      \* '아사쿠사'

\* C10 (no idempotence): a second pass changes the output of the first
\* whenever that output holds a dictionary key, and such outputs exist:
\* '浅ー草' gives '浅草' (the marker is dropped after the dictionary stage),
\* which a second pass turns into '아사쿠사'.
C10_SecondPassDiffers ==
  pc = "done" /\ lang = "ko" /\ entry = "transliterate" =>
    /\ text = AsaKusaSplit => ret = AsaKusa
    /\ HasAnyKey(ret) => Transliterate(ret, "ko") # ret

\* The first pass has returned '浅草', and the second pass gives '아사쿠사'.
C10_Witness ==
  /\ pc = "done" /\ lang = "ko" /\ text = AsaKusaSplit
  /\ Transliterate(ret, "ko") = AsaKusaKo
  /\ Transliterate(ret, "ko") # ret

\* The loose sequence initial, medial, valid final starts at position p of
\* the text of the composition stage.
LooseIMF(p) ==
  /\ p >= 0 /\ p + 2 < Len(compText)
  /\ isInitial(compText[p + 1])
  /\ isMedial(compText[p + 2])
  /\ isFinal(compText[p + 3])

FollowedByMedial(p) == p + 3 < Len(compText) /\ isMedial(compText[p + 4])

\* The standard formula, the final by its place in the 28-slot table.
SyllableCode(I, M, F) ==
  44032 + (IndexOf(INITIALS, I) * 21 + IndexOf(MEDIALS, M)) * 28 + IndexOf(FINALS, F)

\* C8 (composition correctness): when the cursor of the composition stage is
\* at a loose initial I, medial M, valid final F that a non-medial character
\* or the end of the text follows, the step emits exactly the one character
\* 0xAC00 + (index(I)*21 + index(M))*28 + index(F) and advances by three.
C8_ComposesBatchim ==
  [][pc = "comp" /\ LooseIMF(compI) /\ ~FollowedByMedial(compI) =>
       /\ compResult' = Append(compResult,
                               SyllableCode(compText[compI + 1], compText[compI + 2], compText[compI + 3]))
       /\ compI' = compI + 3]_vars

\* 'ㄱㅏㄴ1' has had its three jamo composed into '간' (0xAC04).
C8_Witness ==
  /\ pc = "comp"
  /\ compText = <<12593, 12623, 12596, 49>>
  /\ compI = 3
  /\ compResult = <<44036>>

\* The character c is a precomposed syllable whose initial is I and whose
\* medial is M.
SyllableOf(c, I, M) ==
  /\ isHangulSyllable(c)
  /\ decomposeHangul(c).initial = <<I>>
  /\ decomposeHangul(c).medial = <<M>>

\* The step at a loose initial, medial, final, medial: the final-less
\* syllable is emitted and the cursor advances by two.
LeavesFinalLoose ==
  pc = "comp" /\ LooseIMF(compI) /\ FollowedByMedial(compI) =>
    /\ compResult' = Append(compResult, SyllableCode(compText[compI + 1], compText[compI + 2], NUL))
    /\ compI' = compI + 2

\* The step at the candidate final F of such a sequence emits one syllable
\* made of F as initial and the medial after it.
FinalStartsSyllable ==
  /\ Len(compResult') = Len(compResult) + 1
  /\ SyllableOf(compResult'[Len(compResult')], compText[compI + 1], compText[compI + 2])

C11_NoInterference ==
  [][/\ \E p \in Procs : \A q \in Procs \ {p} : inv'[q] = inv[q]
     /\ \A p \in Procs :
          inv'[p].pc = "done" => inv'[p].ret = Transliterate(inv'[p].text, inv'[p].lang)]_inv

\* Three invocations on different texts are in the middle of different
\* stages at the same time.
C11_Witness ==
  /\ entry = "concurrent"
  /\ inv[1].pc = "phon" /\ inv[1].i = 3 /\ inv[1].text = <<12461, 12515, 12531>>
  /\ inv[2].pc = "comp" /\ inv[2].compI = 2 /\ inv[2].text = <<12354, 12531>>
  /\ inv[3].pc = "done" /\ inv[3].text = ScenarioShinjuku /\ inv[3].lang = "ko"

\* The character is an own key of the single-katakana table.
IsKatakanaKey(char) ==
  \E n \in 1..Len(KATAKANA_SINGLE_ENTRIES) : KATAKANA_SINGLE_ENTRIES[n][1] = char

\* C12 (single katakana): at every cursor position of the phonetic stage
\* where no compound pattern matches and the character is a key of the
\* single-katakana table, the small tsu included, the step appends exactly
\* the table's value for the character and advances by one; a small tsu
\* outside a compound appends nothing.
C12_KatakanaEmitsValue ==
  [][pc = "phon" /\ i < Len(result) /\ FirstCompound(result, i) = 0
       /\ IsKatakanaKey(result[i + 1]) =>
         /\ transliterated' = transliterated \o Lookup(KATAKANA_SINGLE_ENTRIES, result[i + 1])
         /\ i' = i + 1]_vars

\* The n-th compound pattern stands at the position p of the string s.
CompoundAt(s, n, p) ==
  Substring(s, p, p + Len(KATAKANA_COMPOUNDS[n][1])) = KATAKANA_COMPOUNDS[n][1]

\* The patterns of the compound table stand in non-increasing length.
CompoundsByLength ==
  \A m, n \in 1..Len(KATAKANA_COMPOUNDS) :
    m < n => Len(KATAKANA_COMPOUNDS[m][1]) >= Len(KATAKANA_COMPOUNDS[n][1])

\* C13 (compound order): the patterns of the compound table stand in
\* non-increasing length, and at every cursor position of the phonetic stage
\* where a pattern of three characters matches, the step appends that
\* pattern's mapping and advances by three; it never takes the pattern of
\* two characters that is a prefix of it.
C13_LongestCompoundFirst ==
  [][/\ CompoundsByLength
     /\ \A n \in 1..Len(KATAKANA_COMPOUNDS) :
          /\ pc = "phon" /\ i < Len(result)
          /\ Len(KATAKANA_COMPOUNDS[n][1]) = 3
          /\ CompoundAt(result, n, i)
          => /\ transliterated' = transliterated \o KATAKANA_COMPOUNDS[n][2]
             /\ i' = i + 3]_vars

\* 'キャン' has been taken whole, as '캔', where 'キャ' ('캬') also matched.
C13_Witness ==
  /\ pc = "phon" /\ lang = "ko"
  /\ text = <<12461, 12515, 12531>>
  /\ \E n \in 1..Len(KATAKANA_COMPOUNDS) :
       Len(KATAKANA_COMPOUNDS[n][1]) = 2 /\ CompoundAt(result, n, 0)
  /\ i = 3
  /\ transliterated = <<52884>>

\* The cursor of the composition stage is at a complete syllable that a valid
\* final jamo follows.
SyllableThenFinal ==
  /\ pc = "comp" /\ compI + 1 < Len(compText)
  /\ isHangulSyllable(compText[compI + 1])
  /\ isFinal(compText[compI + 2])

\* The syllable has no final: its offset in the block is a multiple of 28.
IsOpenSyllable(c) == c >= 44032 /\ c <= 55203 /\ (c - 44032) % 28 = 0

\* C14 (batchim for a complete syllable): at a complete syllable followed by
\* a valid final F that no medial follows, the step emits the one syllable
\* with the same initial and medial and F as final and advances by two when
\* the syllable has no final; when it has one, the step emits the syllable
\* unchanged and advances by one, leaving F where it is.
C14_SyllableTakesBatchim ==
  [][SyllableThenFinal /\ ~(compI + 2 < Len(compText) /\ isMedial(compText[compI + 3])) =>
       IF IsOpenSyllable(compText[compI + 1])
       THEN /\ compResult' = Append(compResult, compText[compI + 1] + IndexOf(FINALS, compText[compI + 2]))
            /\ compI' = compI + 2
       ELSE /\ compResult' = Append(compResult, compText[compI + 1])
            /\ compI' = compI + 1]_vars

\* '간ㄱ가ㄴ': '간' has been left as it is, 'ㄱ' stands loose, and '가' with
\* 'ㄴ' has become '간'.
C14_Witness ==
  /\ pc = "comp"
  /\ compText = <<44036, 12593, 44032, 12596>>
  /\ compI = 4
  /\ compResult = <<44036, 12593, 44036>>

\* The step after a syllable, final F, medial V was met emits one syllable
\* made of F as initial and V as medial.
CandidateStartsSyllable ==
  /\ Len(compResult') = Len(compResult) + 1
  /\ SyllableOf(compResult'[Len(compResult')], compText[compI + 1], compText[compI + 2])

\* The step at a syllable, valid final, medial emits the syllable as it is
\* and advances by one.
LeavesCandidateLoose ==
  SyllableThenFinal /\ compI + 2 < Len(compText) /\ isMedial(compText[compI + 3]) =>
    /\ compResult' = Append(compResult, compText[compI + 1])
    /\ compI' = compI + 1

\* The cursor is at the candidate final F of a syllable, F, medial.
AtCandidateAfterSyllable ==
  /\ pc = "comp" /\ compI >= 1 /\ compI + 1 < Len(compText)
  /\ isHangulSyllable(compText[compI])
  /\ isFinal(compText[compI + 1])
  /\ isMedial(compText[compI + 2])

NIEUN == 12596       \* 'ㄴ', what 'ン' and 'ん' are mapped to

\* C16 (the nasal as batchim): in the composition of a Step 2 stream, every
\* syllable without a final that a loose 'ㄴ' follows, no medial jamo after
\* it, becomes one syllable with the final 'ㄴ' (slot 4 of the final table),
\* both characters consumed; 'ボンピン', whose stream is '보ㄴ피ㄴ', is
\* returned as '본핀'.
C16_NasalBecomesBatchim ==
  [][/\ /\ pc = "comp" /\ compI + 1 < Len(compText)
        /\ IsOpenSyllable(compText[compI + 1])
        /\ compText[compI + 2] = NIEUN
        /\ ~(compI + 2 < Len(compText) /\ isMedial(compText[compI + 3]))
        => /\ compResult' = Append(compResult, compText[compI + 1] + 4)
           /\ compI' = compI + 2
     /\ pc' = "done" /\ lang = "ko" /\ text = ScenarioBonPin =>
          /\ compText = <<48372, NIEUN, 54588, NIEUN>>
          /\ ret' = <<48376, 54592>>]_vars

\* 'ボンピン' has been returned as '본핀'.
C16_Witness ==
  /\ pc = "done" /\ lang = "ko"
  /\ text = ScenarioBonPin
  /\ transliterated = <<48372, NIEUN, 54588, NIEUN>>
  /\ ret = <<48376, 54592>>

\* Position k of the Step 2 stream holds the 'ㄴ' of a nasal, and no
\* vowel-bearing syllable follows it: the stream ends there, or goes on with
\* a character that is neither a syllable nor a medial jamo.
LooseNasalAt(k) ==
  /\ k < Len(compText) /\ compText[k + 1] = NIEUN
  /\ \/ k + 1 >= Len(compText)
     \/ ~isHangulSyllable(compText[k + 2]) /\ ~isMedial(compText[k + 2])

\* What the composition takes the 'ㄴ' at k as batchim of: a syllable without
\* a final, or a loose initial and medial, right before it.
PrecededByOpenSyllable(k) ==
  \/ k >= 1 /\ IsOpenSyllable(compText[k])
  \/ k >= 2 /\ isInitial(compText[k - 1]) /\ isMedial(compText[k])

\* What the step of the composition stage has pushed.
Pushed == SubSeq(compResult', Len(compResult) + 1, Len(compResult'))

\* C17 as claimed (the nasal with no vowel after it): the 'ㄴ' that 'ん' or
\* 'ン' is mapped to, when no vowel-bearing syllable follows it (as at the end
\* of the input), is emitted as it is: it stands in the output as a loose
\* jamo.
C17_NasalStaysLoose ==
  [][pc = "comp" /\ entry = "transliterate" =>
       \A k \in compI..(compI' - 1) :
         LooseNasalAt(k) => \E n \in 1..Len(Pushed) : Pushed[n] = NIEUN]_vars

\* C17 as the code has it: such a 'ㄴ' is emitted as it is, a loose jamo of
\* the output, when what stands before it in the Step 2 stream is neither a
\* syllable without a final nor a loose initial and medial; after one of
\* these the composition stage takes it as the batchim of that syllable
\* (the doc comment of composeHangul: '보ㄴ피ㄴ' gives '본핀').
C17_NasalLooseUnlessBatchim ==
  [][pc = "comp" /\ entry = "transliterate" =>
       \A k \in compI..(compI' - 1) :
         LooseNasalAt(k) =>
           IF PrecededByOpenSyllable(k)
           THEN k > compI /\ Len(Pushed) = 1 /\ isHangulSyllable(Pushed[1])
                  /\ (Pushed[1] - 44032) % 28 = 4
           ELSE k = compI /\ Pushed = <<NIEUN>> /\ compI' = compI + 1]_vars

\* 'んン': the last character of the input is a nasal after a character that
\* gives no syllable, and the output ends with the loose 'ㄴ'.
C17_Witness ==
  /\ pc = "done" /\ lang = "ko"
  /\ text = <<12435, 12531>>
  /\ compText = <<NIEUN, NIEUN>>
  /\ LooseNasalAt(1) /\ ~PrecededByOpenSyllable(1)
  /\ ret = <<NIEUN, NIEUN>>

\* C18 (no backtracking in the phonetic stage): every step of the stage
\* moves the cursor forward by the length of what it matched (the length of
\* the compound pattern, 3 or 2, when one matches at the cursor, and 1
\* otherwise), never past the end of the string, so every position is
\* consumed by exactly one step; the string scanned stays as it is, and the
\* output buffer grows by appending: what was emitted stays a prefix.
C18_NoBacktracking ==
  [][pc = "phon" /\ pc' = "phon" =>
       LET n == FirstCompound(result, i)
       IN  /\ i' - i = (IF n # 0 THEN Len(KATAKANA_COMPOUNDS[n][1]) ELSE 1)
           /\ i' - i \in {1, 2, 3}
           /\ i' <= Len(result)
           /\ result' = result
           /\ Len(transliterated') >= Len(transliterated)
           /\ SubSeq(transliterated', 1, Len(transliterated)) = transliterated]_vars

\* 'キャンー' has been scanned in two steps: by three, then by one.
C18_Witness ==
  /\ pc = "phon" /\ lang = "ko"
  /\ text = <<12461, 12515, 12531, 12540>>
  /\ i = 4
  /\ transliterated = <<52884>>

\* The character at the cursor of the composition stage cannot be composed:
\* an initial jamo that no medial follows, or a character that is neither a
\* complete syllable nor an initial jamo (a medial, a final-only jamo, a
\* character that is not Hangul).
Uncomposable ==
  LET c == compText[compI + 1]
  IN  \/ isInitial(c) /\ ~(compI + 1 < Len(compText) /\ isMedial(compText[compI + 2]))
      \/ ~isInitial(c) /\ ~isHangulSyllable(c)

\* C19 (pass-through of the composition stage): a character at the cursor
\* that cannot be composed is emitted unchanged and the cursor advances by
\* one; and composeHangul(x) returns x for every x that holds no Hangul jamo.
C19_ComposePassThrough ==
  [][/\ pc = "comp" /\ compI < Len(compText) /\ Uncomposable =>
          /\ compResult' = Append(compResult, compText[compI + 1])
          /\ compI' = compI + 1
     /\ pc' = "done" /\ entry = "composeHangul" /\ Chars(compText) \cap JamoChars = {} =>
          ret' = compText]_vars

\* '1ㅏㄱ1': the digit, the medial and the initial with no medial after it
\* have each been passed through.
C19_Witness ==
  /\ pc = "comp" /\ entry = "composeHangul"
  /\ compText = <<49, 12623, 12593, 49>>
  /\ compI = 3
  /\ compResult = <<49, 12623, 12593>>

\* C20 (jamo alphabet): the tables of initials, medials and finals have 19,
\* 21 and 28 slots, slot 0 of the finals standing for no final; for the
\* initial of index a, the medial of index b and the final of index c (0 when
\* the final is left out) composeHangulSyllable returns the one character
\* 0xAC00 + (a*21 + b)*28 + c, which lies in 0xAC00..0xAC00+11171 and from
\* which a, b and c are recovered, so that distinct triples give distinct
\* characters.
C20_JamoAlphabet ==
  /\ Len(INITIALS) = 19 /\ Len(MEDIALS) = 21 /\ Len(FINALS) = 28 /\ FINALS[1] = NUL
  /\ pc = "done" /\ entry = "composeHangulSyllable" =>
       \A a \in 0..18 : INITIALS[a + 1] = compText[1] =>
         \A b \in 0..20 : MEDIALS[b + 1] = compText[2] =>
           \A c \in 0..27 : (IF Len(compText) = 3 THEN FINALS[c + 1] = compText[3] ELSE c = 0) =>
             /\ ret = <<44032 + (a * 21 + b) * 28 + c>>
             /\ ret[1] >= 44032 /\ ret[1] <= 44032 + 11171
             /\ (ret[1] - 44032) \div 588 = a
             /\ ((ret[1] - 44032) % 588) \div 28 = b
             /\ (ret[1] - 44032) % 28 = c

\* The last triple, 'ㅎ', 'ㅣ', 'ㅎ', has been composed into '힣' (0xD7A3).
C20_Witness ==
  /\ pc = "done" /\ entry = "composeHangulSyllable"
  /\ compText = <<12622, 12643, 12622>>
  /\ ret = <<55203>>

\* The string holds, at the 1-based position j, something the composition
\* stage would still compose: an initial jamo right before a medial, or a
\* syllable without a final right before a final jamo that no medial follows.
ComposableAt(s, j) ==
  \/ j < Len(s) /\ isInitial(s[j]) /\ isMedial(s[j + 1])
  \/ /\ j < Len(s) /\ IsOpenSyllable(s[j]) /\ isFinal(s[j + 1])
     /\ ~(j + 1 < Len(s) /\ isMedial(s[j + 2]))

\* C21 (composeHangul is idempotent): what composeHangul returns is returned
\* unchanged by a second application, and it holds no initial jamo right
\* before a medial and no syllable without a final right before a final jamo
\* that no medial follows.
C21_ComposeIdempotent ==
  pc = "done" /\ entry = "composeHangul" =>
    /\ composeHangul(ret) = ret
    /\ \A j \in 1..Len(ret) : ~ComposableAt(ret, j)

\* 'ㄱㅏㄴㅏ' has been composed into '가나', which a second application
\* leaves as it is.
C21_Witness ==
  /\ pc = "done" /\ entry = "composeHangul"
  /\ compText = <<12593, 12623, 12596, 12623>>
  /\ ret = <<44032, 45208>>
  /\ composeHangul(ret) = ret

\* The character has a non-empty mapping in one of the single-character
\* tables, or is the prolonged-sound marker.
Convertible(c) ==
  \/ Lookup(KATAKANA_SINGLE_ENTRIES, c) # << >>
  \/ Lookup(HIRAGANA_SINGLE_ENTRIES, c) # << >>
  \/ Lookup(KANJI_MAP_ENTRIES, c) # << >>
  \/ c = 12540

\* What the phonetic stage emits for a match holds nothing convertible.
EmitsNothingConvertible ==
  \A entries \in {KATAKANA_COMPOUNDS, KATAKANA_SINGLE_ENTRIES, HIRAGANA_SINGLE_ENTRIES,
                   KANJI_MAP_ENTRIES} :
    \A n \in 1..Len(entries) : \A j \in 1..Len(entries[n][2]) : ~Convertible(entries[n][2][j])

\* C22 (nothing convertible is left): what transliterate(x, "ko") returns
\* holds no character with a non-empty mapping in the single-katakana, the
\* single-hiragana or the kanji table, and no prolonged-sound marker.
C22_NothingConvertibleLeft ==
  /\ EmitsNothingConvertible
  /\ pc = "done" /\ lang = "ko" /\ entry = "transliterate" =>
       \A j \in 1..Len(ret) : ~Convertible(ret[j])

\* A text with a hiragana, the marker and a katakana has been returned as
\* two characters, neither of them convertible.
C22_Witness ==
  /\ pc = "done" /\ lang = "ko"
  /\ \E j \in 1..Len(text) : Lookup(HIRAGANA_SINGLE_ENTRIES, text[j]) # << >>
  /\ \E j \in 1..Len(text) : text[j] = 12540
  /\ \E j \in 1..Len(text) : Lookup(KATAKANA_SINGLE_ENTRIES, text[j]) # << >>
  /\ Len(ret) = 2
  /\ \A j \in 1..Len(ret) : ~Convertible(ret[j])

\* C23 (a dictionary replacement is composed like any Hangul): when the
\* dictionary stage has replaced a key by a value that ends in a syllable
\* without a final and a nasal, 'ン' or 'ん', stands right after it at the end
\* of the text, the loose 'ㄴ' of the nasal becomes the final of the value's
\* last syllable: the value does not stand in the output as it is
\* ('新宿ン' gives '신주쿤').
C23_NasalJoinsDictionaryValue ==
  pc = "done" /\ lang = "ko" /\ entry = "transliterate" =>
    \A n \in 1..Len(WORD_MAP) :
      LET key   == WORD_MAP[n][1]
          value == WORD_MAP[n][2]
      IN  /\ Len(text) = Len(key) + 1
          /\ SubSeq(text, 1, Len(key)) = key
          /\ text[Len(text)] \in {12531, 12435}
          /\ result = value \o <<text[Len(text)]>>
          /\ value # << >> /\ IsOpenSyllable(value[Len(value)])
          => /\ ret = SubSeq(value, 1, Len(value) - 1) \o <<value[Len(value)] + 4>>
             /\ ~StrIncludes(ret, value)

\* '新宿ン' has been returned as '신주쿤'.
C23_Witness ==
  /\ pc = "done" /\ lang = "ko"
  /\ text = ScenarioShinjuku \o <<12531>>
  /\ result = <<49888, 51452, 53216, 12531>>
  /\ ret = <<49888, 51452, 53220>>

\* C24: for target "ko", every 'の' of the input is consumed by Step 1, inside
\* a longer key or by the key 'の' whose value is a space: the string that
\* enters Step 2 holds no 'の', no step of Step 2 stands on one, and so the
\* entry 'の': '노' of HIRAGANA_SINGLE, which exists, is never applied.
NO == 12398

C24_ParticleConsumed ==
  /\ TableGet(HIRAGANA_SINGLE, NO) = <<45432>>
  /\ pc \in {"phon", "compcall", "comp", "done"} /\ lang = "ko" /\ entry = "transliterate" =>
       /\ NO \notin Chars(result)
       /\ pc = "phon" /\ i < Len(result) =>
            ~(PhoneticAt(result, i).branch = "hiragana" /\ result[i + 1] = NO)

C24_Witness ==
  /\ pc = "done" /\ lang = "ko"
  /\ text = <<12354, 12398, 12398>>
  /\ ret = <<50500, 32, 32>>

\* The events of the pages answered so far, in page order.
RECURSIVE EventsOfPages(_, _, _)
EventsOfPages(dateStr, answered, n) ==
  IF n = 0 THEN << >>
  ELSE EventsOfPages(dateStr, answered, n - 1)
         \o (IF answered[n].ok THEN CardsOf(dateStr, n, answered[n].cards) ELSE << >>)

\* The answer ends the pagination: no cards, no link to the next page, or a
\* failed fetch.
EndsPagination(r) == ~r.ok \/ r.cards = 0 \/ ~r.next

CrawlDateBounded ==
  LET c == crawlDateCall
  IN  c.pc \in {"fetch", "returned"} =>
        LET n == Len(c.answered)
        IN  /\ Len(c.requested) <= 10
            /\ c.requested = [k \in 1..Len(c.requested) |-> k]
            /\ \A k \in 1..(n - 1) : ~EndsPagination(c.answered[k])
            /\ c.pc = "fetch" => Len(c.requested) = n + 1
                                   /\ (n > 0 => ~EndsPagination(c.answered[n]))
            /\ c.pc = "returned" =>
                 /\ Len(c.requested) = n /\ n >= 1
                 /\ EndsPagination(c.answered[n]) \/ n = 10
                 /\ c.dateEvents = EventsOfPages(c.dateStr, c.answered, n)

\* C25: crawlDate terminates and requests at most 10 pages, the pages 1, 2, ...
\* in order: it returns after the first answer that has no event cards, has no
\* link to the next page or is a failure, and otherwise after page 10; what it
\* returns are the events of all the pages answered before, in page order.
C25_CrawlDateTerminates ==
  /\ []CrawlDateBounded
  /\ <>(crawlDateCall.pc = "returned")

C25_Witness ==
  /\ crawlDateCall.pc = "returned"
  /\ Len(crawlDateCall.requested) = 10
  /\ crawlDateCall.answered[4] = [ok |-> TRUE, cards |-> 1, next |-> TRUE]
  /\ crawlDateCall.answered[10] = Failure
  /\ Len(crawlDateCall.dateEvents) = 9

\* The calls of crawlDate that have not returned.
InFlight(c) == {k \in 1..Len(c.calls) : c.calls[k].pc = "fetch"}

CrawlBatched ==
  LET c == crawlCall
  IN  c.pc \in {"batch", "returned"} =>
        /\ Cardinality(InFlight(c)) <= 5
        /\ Len(c.calls) <= 5
        \* the dates crawled so far are the first dates, each once, in order
        /\ c.crawled = SubSeq(c.datesToCrawl, 1, Len(c.crawled))
        /\ \A a, b \in 1..Len(c.crawled) : a < b => c.crawled[a] < c.crawled[b]
        \* the calls in flight are the calls of the last batch only
        /\ c.pc = "batch" =>
             /\ Len(c.crawled) = c.i + Len(c.calls)
             /\ \A k \in 1..Len(c.calls) : c.calls[k].dateStr = c.crawled[c.i + k]
        \* the results are those of the batches before, in date order
        /\ \A a, b \in 1..Len(c.results) : a < b => c.results[a].isoDate <= c.results[b].isoDate
        /\ \A a \in 1..Len(c.results) :
             \E k \in 1..c.i : k <= Len(c.crawled) /\ c.results[a].isoDate = c.crawled[k]
        /\ c.pc = "returned" =>
             /\ c.crawled = c.datesToCrawl
             /\ Len(c.datesToCrawl) = (IF c.days = NaN THEN 0 ELSE c.days)
             /\ InFlight(c) = {}

\* A batch is started only in a step that finds every call of the batch
\* before it returned.
BatchAfterSettled ==
  crawlCall.pc = "batch" /\ crawlCall'.pc = "batch" /\ crawlCall'.i # crawlCall.i =>
    /\ \A k \in 1..Len(crawlCall.calls) : crawlCall.calls[k].pc = "returned"
    /\ crawlCall'.i = crawlCall.i + 5
    /\ crawlCall'.results = crawlCall.results \o PushAll(crawlCall.calls, Len(crawlCall.calls))

\* C26: crawlLaBOLA has at most 5 calls of crawlDate in flight: the dates are
\* crawled in consecutive batches of at most 5, a batch starts only after
\* every call of the batch before has returned, each of the `days` dates is
\* crawled exactly once, and the results are appended in date order.
C26_BatchesOfFive ==
  /\ []CrawlBatched
  /\ [][BatchAfterSettled]_vars

C26_Witness ==
  /\ crawlCall.pc = "batch"
  /\ crawlCall.days = 6 /\ crawlCall.i = 5
  /\ Len(crawlCall.calls) = 1
  /\ Cardinality(InFlight(crawlCall)) = 1
  /\ crawlCall.calls[1].page = 2
  /\ Len(crawlCall.results) = 6

\* The HEAD request for the event ended with a response of status 404.
Returned404(c, id) ==
  \E h \in c.heads : h.id = id /\ h.outcome.responded /\ h.outcome.status = 404

\* The HEAD request for the event ended otherwise: without a response, or
\* with another status.
EndedOtherwise(c, id) ==
  \E h \in c.heads : h.id = id /\ ~(h.outcome.responded /\ h.outcome.status = 404)

\* C27: the cleanup endpoint deletes an event only if the HEAD request for its
\* URL returned 404: an event whose request ended without a response or with
\* another status is in no delete and stays in the table, and when no request
\* returned 404 no delete is issued.
C27_DeletesOnly404 ==
  LET c == cleanupReq
  IN  c.pc # "idle" =>
        /\ \A d \in 1..Len(c.deletes) : \A j \in 1..Len(c.deletes[d]) :
             Returned404(c, c.deletes[d][j]) /\ ~EndedOtherwise(c, c.deletes[d][j])
        /\ \A id \in c.rows : id \notin c.table => Returned404(c, id)
        /\ \A id \in c.rows : EndedOtherwise(c, id) => id \in c.table
        /\ (\A id \in c.rows : ~Returned404(c, id)) => c.deletes = << >>

C27_Witness ==
  /\ cleanupReq.pc = "responded"
  /\ cleanupReq.response.success
  /\ Len(cleanupReq.events) = 6
  /\ cleanupReq.deletes = << <<2, 6>> >>
  /\ cleanupReq.table = {1, 3, 4, 5}
  /\ [id |-> 1, outcome |-> [responded |-> FALSE, status |-> 0]] \in cleanupReq.heads
  /\ [id |-> 3, outcome |-> [responded |-> TRUE, status |-> 503]] \in cleanupReq.heads
  /\ [id |-> 4, outcome |-> [responded |-> TRUE, status |-> 403]] \in cleanupReq.heads

\* The operations of a kind among those the crawl handler issued.
Issued(r, op) == {k \in 1..Len(r.ops) : r.ops[k].op = op}

\* C28: in clean mode the crawl endpoint deletes the rows of the dates
\* startDate .. startDate + days - 1 before the crawl starts and before any
\* upsert; if the delete returns an error the answer is success: false with
\* status 500 and neither the crawl nor the upsert is performed; without clean
\* mode no delete is issued.
C28_CleanBeforeCrawl ==
  LET r == crawlReq
  IN  r.pc # "idle" =>
        /\ r.clean =>
             /\ \A k \in Issued(r, "crawl") \cup Issued(r, "upsert") :
                  /\ k > 1
                  /\ r.ops[1] = [op |-> "delete", from |-> r.startDate,
                                 to |-> r.startDate + r.days - 1]
             /\ Cardinality(Issued(r, "delete")) <= 1
             \* while the delete is pending nothing else has begun
             /\ r.pc = "delete" => crawlCall = Idle /\ Len(r.ops) = 1
             \* once the crawl is under way the rows of the range are gone,
             \* and the rows around it are not
             /\ crawlCall # Idle =>
                  /\ \A d \in r.startDate..(r.startDate + r.days - 1) : Stale(d) \notin r.table
                  /\ Stale(r.startDate - 1) \in r.table
                  /\ Stale(r.startDate + r.days) \in r.table
                  /\ ~r.deleteError
        /\ r.deleteError =>
             /\ r.pc = "responded" /\ r.response = [status |-> 500, success |-> FALSE]
             /\ Issued(r, "crawl") = {} /\ Issued(r, "upsert") = {}
             /\ crawlCall = Idle
             /\ r.table = {Stale(d) : d \in (r.startDate - 1)..(r.startDate + MaxReqDays)}
        /\ ~r.clean =>
             /\ Issued(r, "delete") = {}
             /\ \A d \in (r.startDate - 1)..(r.startDate + MaxReqDays) : Stale(d) \in r.table
        /\ \A k \in Issued(r, "upsert") : \E j \in Issued(r, "crawl") : j < k

C28_Witness ==
  /\ crawlReq.pc = "responded" /\ crawlReq.response.success
  /\ crawlReq.clean /\ crawlReq.days = 2
  /\ crawlReq.ops = <<[op |-> "delete", from |-> 1, to |-> 2], [op |-> "crawl"], [op |-> "upsert"]>>
  /\ crawlReq.table = {Stale(0), Stale(3), [isoDate |-> 2, page |-> 1, card |-> 1]}

\* The query returned a page of 1000 rows.
FullPage(a) == ~a.error /\ a.data /\ a.rows = 1000

EventsBounded ==
  LET c == eventsReq
      n == Len(c.queries)
  IN  c.pc \in {"query", "responded"} =>
        /\ n >= 1 /\ n <= 50
        /\ \A k \in 1..n : c.queries[k] = [from |-> (k - 1) * 1000, to |-> (k - 1) * 1000 + 999]
        /\ \A k \in 1..(n - 1) : k <= Len(c.answers) /\ FullPage(c.answers[k])
        /\ c.pc = "query" => Len(c.answers) = n - 1
        /\ c.pc = "responded" =>
             /\ Len(c.answers) = n
             /\ LET last == c.answers[n]
                    m    == IF last.data /\ last.rows > 0 THEN n ELSE n - 1
                IN  IF last.error
                    THEN c.response = [status |-> 500, success |-> FALSE] /\ c.events = << >>
                    ELSE /\ c.response = [status |-> 200, success |-> TRUE]
                         /\ ~FullPage(last) \/ n = 50
                         /\ c.events = [k \in 1..m |->
                                          [from |-> (k - 1) * 1000, rows |-> c.answers[k].rows]]

\* C29: the paginated read of the events endpoint terminates after at most 50
\* range queries of 1000 rows each: it stops at the first page that is empty
\* or shorter than 1000 rows, answers success: false at once, without the
\* pages read, when a query returns an error, and else answers with the rows
\* of all pages read, in page order.
C29_PaginatedReadTerminates ==
  /\ []EventsBounded
  /\ <>(eventsReq.pc = "responded")

C29_Witness ==
  /\ eventsReq.pc = "responded"
  /\ eventsReq.response.success
  /\ Len(eventsReq.queries) = 3
  /\ eventsReq.answers[3] = [error |-> FALSE, data |-> TRUE, rows |-> 999]
  /\ eventsReq.events = <<[from |-> 0, rows |-> 1000], [from |-> 1000, rows |-> 1000],
                          [from |-> 2000, rows |-> 999]>>

\* The stepwise run returns what the function of the arguments returns.
StepwiseAgrees ==
  pc = "done" =>
    ret = IF entry = "transliterate" THEN Transliterate(text, lang) ELSE composeHangul(compText)

====
